---- MODULE Spec2Model ----
(***************************************************************************)
(* Model of the guideline evaluation pipeline of the preventive-medicine   *)
(* server: the safety filter (guidelines/safety-filter.ts), the guideline  *)
(* loader and its cache (guidelines/loader.ts), the database queries the   *)
(* evaluator uses (db/queries.ts) and the evaluator itself                 *)
(* (guidelines/evaluator.ts); the trend engine (services/trend.ts) and the *)
(* timeline route that aggregates trends per category (routes/timeline.ts).*)
(***************************************************************************)
EXTENDS Integers, Sequences, FiniteSets, TLC

VARIABLES
  \* ---- safety filter, called on its own ----
  text,            \* the candidate output string handed to filterSafetyOutput
  filtered,        \* what filterSafetyOutput returned for it
  fpc,             \* "ready" before the call, "done" after it
  \* ---- trend engine, called on its own ----
  values,          \* the caller's array handed to detectTrend
  trendResult,     \* what detectTrend returned for it
  tpc,             \* "ready" before the call, "done" after it
  \* ---- one GET /api/timeline request ----
  treq,            \* user id and query parameters of the request
  tlpc,            \* position of the handler
  tcat,            \* index of the category the fetch loop is at
  effectiveFrom,   \* its local `effectiveFrom`
  allObs,          \* its local `allObs`
  trendByCategory,   \* its local Map category -> TrendResult
  summaryByCategory, \* its local Map category -> summary sentence
  tres,            \* the response it sent, or Null
  \* ---- loadGuidelines followed call by call, arrays kept by address ----
  heap,            \* the arrays loadGuidelines has created: address -> content
  lpc,             \* per caller: position in loadGuidelines / in its own loop
  larr,            \* per caller: address of the local array `guidelines`
  lnames,          \* per caller: number of entries of `jsonFiles`
  lidx,            \* per caller: index of the file the for-loop is at
  lret,            \* per caller: address of the array loadGuidelines returned
  lpos,            \* per caller: elements its for-of loop has visited
  lseen,           \* per caller: the rules its loop has visited
  nCalls,          \* number of loadGuidelines calls made
  nUpdates,        \* number of times the guideline files were changed
  \* ---- history of the cache, read by the properties only ----
  retAt,           \* per caller: content of the returned array when returned
  established,     \* content cached by the first load that succeeded since
                   \* the start or the last clearGuidelinesCache, or Null
  invalidated,     \* clearGuidelinesCache was called and no call made since
  readBeforeClear, \* addresses of the arrays that held rules read from the
                   \* source when clearGuidelinesCache was last called
  \* ---- the refresh tokens (middleware/auth.ts), called on their own ----
  refreshTokenStore, \* the Map token -> entry, as a set of entries
  authNow,         \* the time `Date.now()` gives, in days
  nIssued,         \* number of tokens generateRefreshToken has made
  nOps,            \* number of calls made
  nAdvances,       \* number of times the time has moved on
  spent,           \* history: tokens handed to rotate / invalidateRefreshToken
  lastOp,          \* history: the last call, what it returned, and whether
                   \* its token had been handed to rotate / invalidate before
  \* ---- process-wide state of the server ----
  clock,           \* the wall clock (what `new Date()` returns), a date
  users,           \* table users: user id -> [dateOfBirth, sex]
  obsTable,        \* table observations: set of rows
  recommendations, \* table recommendations: set of rows
  riskSignals,     \* table risk_signals: set of rows
  nextId,          \* source of generated row ids (uuid defaultRandom)
  source,          \* the guideline files on disk, as a sequence of rules
  guidelinesCache, \* loader.ts module variable: Null or a collection
  \* ---- one evaluateGuidelines invocation per run id ----
  pc,              \* position of the run in evaluateGuidelines
  uid,             \* its userId argument
  error,           \* the message of the error it threw, or Null
  guidelines,      \* its local `guidelines`
  observations,    \* its local `observations`
  age,             \* its local `age`
  sex,             \* its local `sex`
  user,            \* its local `user`, the row getUserById returned
  idx,             \* index of the rule the for-loop is at
  matchedRecommendations, \* its local array of created recommendations
  matchedRiskSignals,     \* its local array of created risk signals
  questions,       \* its local `questions`
  result,          \* the object it returned, or Null
  \* ---- history, read by the properties only ----
  calledAt,        \* wall clock at the moment the run was called
  lastRun          \* user id -> the run for that user that returned last (0: none)

vars == <<text, filtered, fpc, values, trendResult, tpc, treq, tlpc, tcat, effectiveFrom,
          allObs, trendByCategory, summaryByCategory, tres, heap, lpc, larr, lnames,
          lidx, lret, lpos, lseen, nCalls, nUpdates, retAt, established, invalidated,
          readBeforeClear, refreshTokenStore, authNow, nIssued, nOps, nAdvances, spent,
          lastOp, clock, users, obsTable, recommendations,
          riskSignals, nextId, source, guidelinesCache, pc, uid, error,
          guidelines, observations, age, sex, user, idx,
          matchedRecommendations, matchedRiskSignals, questions, result, calledAt, lastRun>>

filterVars == <<text, filtered, fpc>>
trendVars == <<values, trendResult, tpc>>
\* the variables of the components evaluateGuidelines does not touch
timelineVars == <<treq, tlpc, tcat, effectiveFrom, allObs, trendByCategory,
                  summaryByCategory, tres>>
loaderVars == <<heap, lpc, larr, lnames, lidx, lret, lpos, lseen, nCalls, nUpdates,
                retAt, established, invalidated, readBeforeClear>>
authVars == <<refreshTokenStore, authNow, nIssued, nOps, nAdvances, spent, lastOp>>
sideVars == <<filterVars, trendVars, timelineVars, loaderVars, authVars>>
dbVars == <<users, obsTable, recommendations, riskSignals, nextId>>
runVars == <<pc, uid, error, guidelines, observations, age, sex, user, idx,
             matchedRecommendations, matchedRiskSignals, questions, result,
             calledAt, lastRun>>
evalVars == <<clock, dbVars, source, guidelinesCache, runVars>>

Null == "null"

(***************************************************************************)
(* Strings.  A string is a sequence of symbols; a symbol stands for the    *)
(* characters it spells.  " " is one space; a word symbol is a run of word *)
(* characters (\w) that contains none of the other keywords; "!" is one    *)
(* punctuation character.  The three replacement phrases and the redaction *)
(* marker are single symbols: none of the seven disallowed patterns can    *)
(* match inside one of them or across one of their borders.  All patterns  *)
(* carry the i flag, so symbols are compared without regard to case.       *)
(***************************************************************************)
SP == " "
MARK == "[content removed for safety]"
RW_HAVE == "your data shows signals sometimes associated with"
RW_TAKE == "you may wish to discuss with a clinician about"
RW_ER == "please contact a healthcare professional promptly"

NonWord == {SP, "!", MARK, RW_HAVE, RW_TAKE, RW_ER}
IsWord(s) == s \notin NonWord

\* t starts with the literal lit at position i
StartsAt(t, i, lit) ==
  /\ i + Len(lit) - 1 <= Len(t)
  /\ \A k \in 1..Len(lit) : t[i + k - 1] = lit[k]

\* length of the first alternative of alts (in order) that t starts with at i, or 0
RECURSIVE AltLen(_, _, _)
AltLen(t, i, alts) ==
  IF alts = <<>> THEN 0
  ELSE IF StartsAt(t, i, Head(alts)) THEN Len(Head(alts))
  ELSE AltLen(t, i, Tail(alts))

\* number of consecutive spaces (\s) of t from position i on
RECURSIVE Spaces(_, _)
Spaces(t, i) == IF i <= Len(t) /\ t[i] = SP THEN 1 + Spaces(t, i + 1) ELSE 0

\* number of consecutive word symbols (\w+) of t from position i on
RECURSIVE WordRun(_, _)
WordRun(t, i) == IF i <= Len(t) /\ IsWord(t[i]) THEN 1 + WordRun(t, i + 1) ELSE 0

Max(S) == CHOOSE x \in S : \A y \in S : y <= x
Min(S) == CHOOSE x \in S : \A y \in S : x <= y

(***************************************************************************)
(* DISALLOWED_PATTERNS.  DisallowedLen(n, t, i) is the length of the match *)
(* of pattern n that starts at position i of t, as the regular expression  *)
(* engine finds it (greedy quantifiers, alternatives in order), 0 if none. *)
(***************************************************************************)
\* /you (?:have|likely have|probably have|are diagnosed with)\s/i
Pat1Len(t, i) ==
  AltLen(t, i, << <<"you", SP, "have", SP>>,
                  <<"you", SP, "likely", SP, "have", SP>>,
                  <<"you", SP, "probably", SP, "have", SP>>,
                  <<"you", SP, "are", SP, "diagnosed", SP, "with", SP>> >>)

Pat2Final == {"medication", "drug", "prescription", "pill"}

\* /you (?:should|must|need to) (?:take|start|begin|use)\s+\w+\s*(?:medication|drug|prescription|pill)/i
Pat2Len(t, i) ==
  LET modal == AltLen(t, i, << <<"you", SP, "should", SP>>, <<"you", SP, "must", SP>>,
                               <<"you", SP, "need", SP, "to", SP>> >>)
      verb == AltLen(t, i + modal, << <<"take">>, <<"start">>, <<"begin">>, <<"use">> >>)
      p == i + modal + verb          \* where \s+ starts
      s == Spaces(t, p)
      q == p + s                     \* where \w+ starts
      w == WordRun(t, q)
      s2 == Spaces(t, q + w)
      e == q + w + s2                \* \w+ took the whole run: the final word is here
      \* \w+ gave back the end of its run: the final word is glued to it
      glued == {j \in 1..(w - 1) : t[q + j] \in Pat2Final}
  IN  IF modal = 0 \/ verb = 0 \/ s = 0 \/ w = 0 THEN 0
      ELSE IF e <= Len(t) /\ t[e] \in Pat2Final THEN e - i + 1
      ELSE IF glued # {} THEN q + Max(glued) - i + 1
      ELSE 0

\* /go to (?:the )?(?:ER|emergency room|hospital)\s*(?:immediately|now|right away)/i
Pat3Len(t, i) ==
  LET go == AltLen(t, i, << <<"go", SP, "to", SP, "the", SP>>, <<"go", SP, "to", SP>> >>)
      place == AltLen(t, i + go, << <<"ER">>, <<"emergency", SP, "room">>, <<"hospital">> >>)
      p == i + go + place
      s == Spaces(t, p)
      when == AltLen(t, p + s, << <<"immediately">>, <<"now">>, <<"right", SP, "away">> >>)
  IN  IF go = 0 \/ place = 0 \/ when = 0 THEN 0 ELSE go + place + s + when

\* /(?:prescribe|prescribing|prescription for)\s/i
Pat4Len(t, i) ==
  AltLen(t, i, << <<"prescribe", SP>>, <<"prescribing", SP>>,
                  <<"prescription", SP, "for", SP>> >>)

\* /(?:diagnosed? (?:with|as))\s/i
Pat5Len(t, i) ==
  AltLen(t, i, << <<"diagnosed", SP, "with", SP>>, <<"diagnosed", SP, "as", SP>>,
                  <<"diagnose", SP, "with", SP>>, <<"diagnose", SP, "as", SP>> >>)

\* /you are (?:suffering from|afflicted with)\s/i
Pat6Len(t, i) ==
  AltLen(t, i, << <<"you", SP, "are", SP, "suffering", SP, "from", SP>>,
                  <<"you", SP, "are", SP, "afflicted", SP, "with", SP>> >>)

\* /(?:start|begin|take) (?:this )?medication/i
Pat7Len(t, i) ==
  LET verb == AltLen(t, i, << <<"start", SP>>, <<"begin", SP>>, <<"take", SP>> >>)
      rest == AltLen(t, i + verb, << <<"this", SP, "medication">>, <<"medication">> >>)
  IN  IF verb = 0 \/ rest = 0 THEN 0 ELSE verb + rest

NumDisallowed == 7

DisallowedLen(n, t, i) ==
  CASE n = 1 -> Pat1Len(t, i)
    [] n = 2 -> Pat2Len(t, i)
    [] n = 3 -> Pat3Len(t, i)
    [] n = 4 -> Pat4Len(t, i)
    [] n = 5 -> Pat5Len(t, i)
    [] n = 6 -> Pat6Len(t, i)
    [] n = 7 -> Pat7Len(t, i)

\* pattern.test(t)
PatternTest(n, t) == \E i \in 1..Len(t) : DisallowedLen(n, t, i) > 0

\* t.replace(pattern, replacement) for a pattern without the g flag: the
\* leftmost match only
ReplaceFirst(n, t, replacement) ==
  LET at == Min({i \in 1..Len(t) : DisallowedLen(n, t, i) > 0})
      len == DisallowedLen(n, t, at)
  IN  SubSeq(t, 1, at - 1) \o replacement \o SubSeq(t, at + len, Len(t))

(***************************************************************************)
(* REPLACEMENT_PHRASES.  All three patterns carry the g flag: every match, *)
(* left to right, none overlapping.                                        *)
(***************************************************************************)
\* [/you have\s+(\w+)/gi, 'your data shows signals sometimes associated with $1']
Rewrite1Len(t, i) ==
  LET head == AltLen(t, i, << <<"you", SP, "have">> >>)
      s == Spaces(t, i + head)
      w == WordRun(t, i + head + s)
  IN  IF head = 0 \/ s = 0 \/ w = 0 THEN 0 ELSE head + s + w

Rewrite1Text(t, i) ==
  LET len == Rewrite1Len(t, i)
      w == WordRun(t, i + 3 + Spaces(t, i + 3))
  IN  <<RW_HAVE, SP>> \o SubSeq(t, i + len - w, i + len - 1)

\* [/you should take/gi, 'you may wish to discuss with a clinician about']
Rewrite2Len(t, i) == AltLen(t, i, << <<"you", SP, "should", SP, "take">> >>)

\* [/go to the ER/gi, 'please contact a healthcare professional promptly']
Rewrite3Len(t, i) == AltLen(t, i, << <<"go", SP, "to", SP, "the", SP, "ER">> >>)

NumRewrites == 3

RewriteLen(n, t, i) ==
  CASE n = 1 -> Rewrite1Len(t, i)
    [] n = 2 -> Rewrite2Len(t, i)
    [] n = 3 -> Rewrite3Len(t, i)

RewriteText(n, t, i) ==
  CASE n = 1 -> Rewrite1Text(t, i)
    [] n = 2 -> <<RW_TAKE>>
    [] n = 3 -> <<RW_ER>>

\* t.replace(pattern, replacement) for a pattern with the g flag, from position i on
RECURSIVE ReplaceAllFrom(_, _, _)
ReplaceAllFrom(n, t, i) ==
  IF i > Len(t) THEN <<>>
  ELSE IF RewriteLen(n, t, i) > 0
       THEN RewriteText(n, t, i) \o ReplaceAllFrom(n, t, i + RewriteLen(n, t, i))
       ELSE <<t[i]>> \o ReplaceAllFrom(n, t, i + 1)

\* the first loop of filterSafetyOutput, from entry n of REPLACEMENT_PHRASES on
RECURSIVE RewritePass(_, _)
RewritePass(n, t) ==
  IF n > NumRewrites THEN t ELSE RewritePass(n + 1, ReplaceAllFrom(n, t, 1))

\* the second loop of filterSafetyOutput, from entry n of DISALLOWED_PATTERNS on
RECURSIVE RedactPass(_, _)
RedactPass(n, t) ==
  IF n > NumDisallowed THEN t
  ELSE IF PatternTest(n, t) THEN RedactPass(n + 1, ReplaceFirst(n, t, <<MARK>>))
  ELSE RedactPass(n + 1, t)

filterSafetyOutput(t) == RedactPass(1, RewritePass(1, t))

isSafeOutput(t) == ~ \E n \in 1..NumDisallowed : PatternTest(n, t)

(***************************************************************************)
(* Values.  An optional number or date is <<>> when it is undefined/null   *)
(* and <<n>> / <<y, m, d>> otherwise; an optional string is Null when it   *)
(* is absent.                                                              *)
(***************************************************************************)
Undef == <<>>
Some(n) == <<n>>
NoList == {Null}          \* appliesTo.sex absent (a list never holds Null)
NoRange == [defined |-> FALSE, min |-> Undef, max |-> Undef]
Range(lo, hi) == [defined |-> TRUE, min |-> lo, max |-> hi]

\* JavaScript truthiness of an optional number: undefined and 0 are falsy
TruthyNum(x) == x # Undef /\ x[1] # 0
\* JavaScript truthiness of an optional string: null/undefined are falsy
TruthyStr(x) == x # Null

RECURSIVE SeqToSet(_)
SeqToSet(s) == IF s = <<>> THEN {} ELSE {Head(s)} \cup SeqToSet(Tail(s))

(***************************************************************************)
(* db/queries.ts                                                           *)
(***************************************************************************)
\* (a query that falls back to an empty profile)
getUserById_Default(id) ==
  IF id \in DOMAIN users THEN <<users[id]>> ELSE <<[dateOfBirth |-> Undef, sex |-> Null]>>

\* getUserById: the row, or Undef when no row has the id
getUserById(id) == IF id \in DOMAIN users THEN <<users[id]>> ELSE Undef

\* limit the evaluator passes to getObservationsByUser
ObsQueryLimit == 500

\* s is ordered by timestamp descending
SortedDesc(s) == \A i, j \in 1..Len(s) : i < j => s[i].timestamp >= s[j].timestamp

\* all orders a set of rows can be returned in under ORDER BY timestamp DESC
\* (rows of equal timestamp come in an order the database chooses)
DescOrders(rows) ==
  {s \in [1..Cardinality(rows) -> rows] :
     /\ \A x \in rows : \E i \in 1..Cardinality(rows) : s[i] = x
     /\ SortedDesc(s)}

\* (asc where the query has desc)
getObservationsByUser_Asc(userId, limit) ==
  LET rows == {o \in obsTable : o.userId = userId}
      n == Cardinality(rows)
  IN  {SubSeq(s, 1, IF Len(s) < limit THEN Len(s) ELSE limit) :
         s \in {x \in [1..n -> rows] :
                  /\ \A o \in rows : \E i \in 1..n : x[i] = o
                  /\ \A i, j \in 1..n : i < j => x[i].timestamp <= x[j].timestamp}}

\* getObservationsByUser(userId, {limit}): every result the query may give
getObservationsByUser(userId, limit) ==
  LET rows == {o \in obsTable : o.userId = userId}
  IN  {SubSeq(s, 1, IF Len(s) < limit THEN Len(s) ELSE limit) : s \in DescOrders(rows)}

\* clearRecommendationsByUser / clearRiskSignalsByUser: the table after the delete
clearRecommendationsByUser_NoDelete(userId) == recommendations
clearRecommendationsByUser(userId) == {x \in recommendations : x.userId # userId}
\* (a delete without the where clause)
clearRiskSignalsByUser_AllUsers(userId) == {}
clearRiskSignalsByUser(userId) == {x \in riskSignals : x.userId # userId}

(***************************************************************************)
(* guidelines/evaluator.ts                                                 *)
(***************************************************************************)
\* calculateAge(dateOfBirth), with `now` the value of new Date()
calculateAge(dob, now) ==
  LET years == now[1] - dob[1]
      monthDiff == now[2] - dob[2]
  IN  IF monthDiff < 0 \/ (monthDiff = 0 /\ now[3] < dob[3]) THEN years - 1 ELSE years

\* (no `age !== null` guard: an unknown age fails every bound the rule has)
AgeEligible_NoNullGuard(g, a) ==
  IF a = Undef THEN ~TruthyNum(g.ageMin) /\ ~TruthyNum(g.ageMax)
  ELSE /\ ~(TruthyNum(g.ageMin) /\ a[1] < g.ageMin[1])
       /\ ~(TruthyNum(g.ageMax) /\ a[1] > g.ageMax[1])

\* the age check of the loop: TRUE when the rule is not skipped by it
AgeEligible(g, a) ==
  \/ a = Undef
  \/ /\ ~(TruthyNum(g.ageMin) /\ a[1] < g.ageMin[1])
     /\ ~(TruthyNum(g.ageMax) /\ a[1] > g.ageMax[1])

\* (the allow-list compared as a whole with the one sex of the profile)
SexEligible_ExactList(g, sx) ==
  ~(g.sex # NoList /\ TruthyStr(sx) /\ g.sex # {sx})

\* the sex check of the loop: TRUE when the rule is not skipped by it
SexEligible(g, sx) ==
  ~(g.sex # NoList /\ TruthyStr(sx) /\ sx \notin g.sex)

Eligible(g, a, sx) == AgeEligible(g, a) /\ SexEligible(g, sx)

\* the predicate of observations.filter(...)
IsRelevant(obs, g) ==
  obs.category = g.category /\ (~TruthyStr(g.code) \/ obs.code = g.code)

relevantObs(obsSeq, g) == SelectSeq(obsSeq, LAMBDA obs : IsRelevant(obs, g))

\* const latestObs = relevantObs[0]
latestObs(rel) == rel[1]

\* (the bounds themselves counted as out of range)
isOutOfRange_Inclusive(g, obs) ==
  \/ g.range.min # Undef /\ obs.value <= g.range.min[1]
  \/ g.range.max # Undef /\ obs.value >= g.range.max[1]

isOutOfRange(g, obs) ==
  \/ g.range.min # Undef /\ obs.value < g.range.min[1]
  \/ g.range.max # Undef /\ obs.value > g.range.max[1]

\* relevantObs.length > 0 && guideline.referenceRange, and then isOutOfRange
SignalDue(obsSeq, g) ==
  LET rel == relevantObs(obsSeq, g)
  IN  Len(rel) > 0 /\ g.range.defined /\ isOutOfRange(g, latestObs(rel))

Q_DOB == <<"Date of birth is needed for age-based screening recommendations.">>
Q_SEX == <<"Biological sex helps personalize screening guidelines.">>
Q_NODATA == <<"No health data uploaded yet.">>
Q_MISSING(g) == <<"No data found.", g.code, g.source>>

\* (the sex question pushed before the date-of-birth question)
ProfileQuestions_SexFirst(a, sx, obsSeq) ==
  (IF ~TruthyStr(sx) THEN <<Q_SEX>> ELSE <<>>)
  \o (IF a = Undef \/ a[1] = 0 THEN <<Q_DOB>> ELSE <<>>)
  \o (IF Len(obsSeq) = 0 THEN <<Q_NODATA>> ELSE <<>>)

\* the three pushes before the loop
ProfileQuestions(a, sx, obsSeq) ==
  (IF a = Undef \/ a[1] = 0 THEN <<Q_DOB>> ELSE <<>>)
  \o (IF ~TruthyStr(sx) THEN <<Q_SEX>> ELSE <<>>)
  \o (IF Len(obsSeq) = 0 THEN <<Q_NODATA>> ELSE <<>>)

\* (the push without the test of trigger.code)
RuleQuestion_AnyRule(obsSeq, g) ==
  IF Len(relevantObs(obsSeq, g)) = 0 THEN <<Q_MISSING(g)>> ELSE <<>>

\* the push at the end of the loop body
RuleQuestion(obsSeq, g) ==
  IF Len(relevantObs(obsSeq, g)) = 0 /\ TruthyStr(g.code) THEN <<Q_MISSING(g)>> ELSE <<>>

RECURSIVE Dedup(_, _)
\* [...new Set(questions)]: first occurrences, in order
Dedup(s, seen) ==
  IF s = <<>> THEN <<>>
  ELSE IF Head(s) \in seen THEN Dedup(Tail(s), seen)
  ELSE <<Head(s)>> \o Dedup(Tail(s), seen \cup {Head(s)})

MaxQuestions == 5

\* (the slice without the Set)
uniqueQuestions_NoSet(qs) ==
  SubSeq(qs, 1, IF Len(qs) < MaxQuestions THEN Len(qs) ELSE MaxQuestions)

uniqueQuestions(qs) ==
  LET d == Dedup(qs, {}) IN SubSeq(d, 1, IF Len(d) < MaxQuestions THEN Len(d) ELSE MaxQuestions)

\* (a row that carries the rule's source where its id belongs)
RecRow_SourceAsId(id, userId, g) ==
  [id |-> id, userId |-> userId, text |-> filterSafetyOutput(g.recommendation),
   category |-> g.category, guidelineSource |-> g.source, guidelineId |-> g.source,
   priority |-> "medium"]

\* the row createRecommendation inserts for rule g
RecRow(id, userId, g) ==
  [id |-> id, userId |-> userId, text |-> filterSafetyOutput(g.recommendation),
   category |-> g.category, guidelineSource |-> g.source, guidelineId |-> g.id,
   priority |-> "medium"]

\* the row createRiskSignal inserts for rule g and observation obs
SignalRow(id, userId, g, obs) ==
  [id |-> id, userId |-> userId,
   factor |-> IF TruthyStr(g.code) THEN g.code ELSE g.category,
   currentValue |-> obs.value,
   referenceRangeMin |-> g.range.min, referenceRangeMax |-> g.range.max,
   guidelineSource |-> g.source, guidelineId |-> g.id, severity |-> "watch"]

\* (a `break` where the loop has `continue`)
NextMatch_Break(gs, a, sx, k) ==
  IF k <= Len(gs) /\ Eligible(gs[k], a, sx) THEN k ELSE 0

\* index of the first rule from k on that the loop does not skip, 0 if none
NextMatch(gs, a, sx, k) ==
  LET S == {j \in k..Len(gs) : Eligible(gs[j], a, sx)}
  IN  IF S = {} THEN 0 ELSE Min(S)

(***************************************************************************)
(* guidelines/loader.ts                                                    *)
(***************************************************************************)
\* GuidelineSchema.safeParse(parsed).success for the content of one file
safeParseOk(file) == file.valid

\* the array the loop over jsonFiles builds: the files that parse, in order
ParsedGuidelines(files) == SelectSeq(files, safeParseOk)

(***************************************************************************)
(* services/trend.ts.  The code computes in IEEE doubles.  The model keeps *)
(* a quotient as the pair <<numerator, denominator>> (denominator > 0) and *)
(* compares two quotients by cross-multiplication, which is what the       *)
(* doubles give whenever the two sides differ as real numbers (the values  *)
(* are small integers).  Where the two sides are equal as real numbers and *)
(* rounded operands are involved, the rounding of the division, of the     *)
(* product with 0.05 and of the square root decides the comparison: the    *)
(* model then allows both outcomes, so detectTrend is the SET of results   *)
(* the call can return.                                                    *)
(***************************************************************************)
Point(v, ts) == [value |-> v, timestamp |-> ts]

RECURSIVE SumSeq(_)
SumSeq(s) == IF s = <<>> THEN 0 ELSE Head(s) + SumSeq(Tail(s))

Abs(x) == IF x < 0 THEN -x ELSE x

\* p put into the list s, sorted by timestamp, behind every point whose
\* timestamp is not greater
RECURSIVE InsertByTime(_, _)
InsertByTime(s, p) ==
  IF s = <<>> THEN <<p>>
  ELSE IF Head(s).timestamp <= p.timestamp THEN <<Head(s)>> \o InsertByTime(Tail(s), p)
  ELSE <<p>> \o s

\* (no sort: the points taken in the order given)
SortByTime_None(s) == s

\* [...values].sort((a, b) => a.timestamp.getTime() - b.timestamp.getTime()):
\* ascending by timestamp, points of equal timestamp in their given order
RECURSIVE SortByTime(_)
SortByTime(s) ==
  IF s = <<>> THEN <<>>
  ELSE InsertByTime(SortByTime(SubSeq(s, 1, Len(s) - 1)), s[Len(s)])

\* (null only for the empty series)
TooShort_Empty(vals) == Len(vals) < 1

\* if (values.length < 2) return null
TooShort(vals) == Len(vals) < 2

\* (5 standard deviations)
AnomalyOutcomes_Five(n, latestDev, sqDev) ==
  IF n * latestDev * latestDev > 25 * sqDev THEN {TRUE} ELSE {FALSE}

\* Math.abs(latestValue - mean) > 2 * sd, with latestDev = n * (latestValue - mean)
\* and sqDev = n^3 * variance.  Equal sides: FALSE when all values are equal
\* (both sides are 0 exactly), else as the rounding falls.
AnomalyOutcomes(n, latestDev, sqDev) ==
  IF n * latestDev * latestDev > 4 * sqDev THEN {TRUE}
  ELSE IF n * latestDev * latestDev = 4 * sqDev /\ sqDev # 0 THEN {TRUE, FALSE}
  ELSE {FALSE}

\* (no stability threshold: the sign of the slope alone)
TrendOutcomes_SignOnly(slope, sumY, n) ==
  IF slope[1] = 0 THEN {"stable"}
  ELSE IF slope[1] > 0 THEN {"improving"} ELSE {"declining"}

\* (mean where the code has mean || 1)
TrendOutcomes_NoFallback(slope, sumY, n) ==
  IF 20 * Abs(slope[1]) * n < Abs(sumY) * slope[2] THEN {"stable"}
  ELSE IF slope[1] > 0 THEN {"improving"} ELSE {"declining"}

\* threshold = 0.05 * Math.abs(mean || 1); 'stable' if Math.abs(slope) < threshold,
\* else by the sign of slope.  |slope| < 0.05 * |mean| is
\* 20 * |slope[1]| * n < |sumY| * slope[2].  Equal sides: not below when the
\* mean is 0 (slope and threshold are the same double 0.05), else as the
\* rounding falls.
TrendOutcomes(slope, sumY, n) ==
  LET meanOr1 == IF sumY = 0 THEN <<1, 1>> ELSE <<Abs(sumY), n>>
      lhs == 20 * Abs(slope[1]) * meanOr1[2]
      rhs == meanOr1[1] * slope[2]
      bySign == IF slope[1] > 0 THEN "improving" ELSE "declining"
  IN  IF lhs < rhs THEN {"stable"}
      ELSE IF lhs = rhs /\ sumY # 0 THEN {"stable", bySign}
      ELSE {bySign}

\* the results detectTrend(vals) can return; {Undef} stands for null
detectTrend(vals) ==
  IF TooShort(vals) THEN {Undef}
  ELSE
    LET sorted == SortByTime(vals)
        n == Len(sorted)
        yValues == [i \in 1..n |-> sorted[i].value]
        sumX == SumSeq([i \in 1..n |-> i - 1])
        sumY == SumSeq(yValues)
        sumXY == SumSeq([i \in 1..n |-> (i - 1) * yValues[i]])
        sumX2 == SumSeq([i \in 1..n |-> (i - 1) * (i - 1)])
        slope == <<n * sumXY - sumX * sumY, n * sumX2 - sumX * sumX>>
        window == Min({7, n})
        movingAverage == <<SumSeq(SubSeq(yValues, n - window + 1, n)), window>>
        sqDev == SumSeq([i \in 1..n |-> (n * yValues[i] - sumY) * (n * yValues[i] - sumY)])
        latestValue == yValues[n]
    IN  {<<[trend |-> t, slope |-> slope, movingAverage |-> movingAverage, anomaly |-> a]>> :
           t \in TrendOutcomes(slope, sumY, n),
           a \in AnomalyOutcomes(n, n * latestValue - sumY, sqDev)}

isValidWindow(w) == w \in {"7d", "30d", "90d", "6mo"}

windowToDays(w) ==
  CASE w = "7d" -> 7 [] w = "30d" -> 30 [] w = "90d" -> 90 [] w = "6mo" -> 183

windowLabel(w) ==
  CASE w = Null -> "the observed period"
    [] w = "7d" -> "the past 7 days"
    [] w = "30d" -> "the past 30 days"
    [] w = "90d" -> "the past 90 days"
    [] w = "6mo" -> "the past 6 months"

\* generateTrendSummary: the sentence, as the parts it is put together from
\* (the label of the category, capitalised for 'stable'; the wording for the
\* trend; the period; the note on an unusual latest reading)
generateTrendSummary(category, res, w) ==
  [label |-> category,
   capitalised |-> res.trend = "stable",
   wording |-> CASE res.trend = "improving" -> "has been improving over"
                 [] res.trend = "declining" -> "has been declining over"
                 [] res.trend = "stable" -> "levels are stable over",
   period |-> windowLabel(w),
   note |-> res.anomaly]

(***************************************************************************)
(* routes/timeline.ts, GET /api/timeline, and the query it uses            *)
(***************************************************************************)
DefaultLimit == 100

\* getObservationsByUser(userId, {category, from, to, limit, offset}): every
\* result the query may give
queryObservations(userId, category, from, to, limit, offset) ==
  LET rows == {o \in obsTable :
                 /\ o.userId = userId
                 /\ TruthyStr(category) => o.category = category
                 /\ from # Undef => o.timestamp >= from[1]
                 /\ to # Undef => o.timestamp <= to[1]}
      lim == IF limit = Undef THEN DefaultLimit ELSE limit[1]
      off == IF offset = Undef THEN 0 ELSE offset[1]
  IN  {SubSeq(s, Min({Len(s), off}) + 1, Min({Len(s), off + lim})) : s \in DescOrders(rows)}

\* p put into the list s, sorted by timestamp descending, behind every row
\* whose timestamp is not smaller
RECURSIVE InsertByTimeDesc(_, _)
InsertByTimeDesc(s, p) ==
  IF s = <<>> THEN <<p>>
  ELSE IF Head(s).timestamp >= p.timestamp THEN <<Head(s)>> \o InsertByTimeDesc(Tail(s), p)
  ELSE <<p>> \o s

\* allObs.sort((a, b) => b.timestamp - a.timestamp)
RECURSIVE SortByTimeDesc(_)
SortByTimeDesc(s) ==
  IF s = <<>> THEN <<>>
  ELSE InsertByTimeDesc(SortByTimeDesc(SubSeq(s, 1, Len(s) - 1)), s[Len(s)])

\* (each group keeps only the row seen last)
groupByCategory_LastOnly(obs) ==
  [c \in {obs[i].category : i \in 1..Len(obs)} |->
     LET at == {i \in 1..Len(obs) : obs[i].category = c} IN <<obs[Max(at)]>>]

\* groupByCategory: category -> the rows of that category, in their order
groupByCategory(obs) ==
  [c \in {obs[i].category : i \in 1..Len(obs)} |->
     SelectSeq(obs, LAMBDA o : o.category = c)]

\* obs.map(o => ({ value, timestamp }))
trendInput(obs) == [i \in 1..Len(obs) |-> Point(obs[i].value, obs[i].timestamp)]

\* what detectTrend can return for each group: one result per category
TrendChoices(groups) ==
  {ch \in [DOMAIN groups -> UNION {detectTrend(trendInput(groups[c])) : c \in DOMAIN groups}] :
     \A c \in DOMAIN groups : ch[c] \in detectTrend(trendInput(groups[c]))}

\* window && isValidWindow(window) ? window : undefined
trendWindow(q) ==
  IF TruthyStr(q.window) /\ isValidWindow(q.window) THEN q.window ELSE Null

(***************************************************************************)
(* Bounds of the model and the data the initial states draw from.          *)
(***************************************************************************)
MaxRuns == 2        \* evaluateGuidelines invocations in one behaviour
MaxRules == 2       \* guideline files on disk
MaxObs == 2         \* observation rows of the evaluated user
MaxTicks == 1       \* times the wall clock advances to the next day
MaxChunks == 3      \* phrases a filtered text is made of
MaxRuleSet == 5     \* guideline files on disk when the questions are examined
MaxPoints == 6      \* points of a series handed to detectTrend
MaxShuffle == 4     \* points of a series handed over in any order
MaxLoads == 2       \* loadGuidelines calls in one behaviour
MaxUpdates == 1     \* times the guideline files change in one behaviour
MaxTokens == 3      \* refresh tokens generated in one behaviour
MaxOps == 4         \* calls on the refresh tokens in one behaviour
MaxAdvances == 2    \* times the time of the refresh tokens moves on

Runs == 1..MaxRuns
\* the requests and jobs that call loadGuidelines and loop over what it returns
Callers == {"c1", "c2"}
Ghost == "u0"       \* a user id no row of users has
UserIds == {"u1", "u2", Ghost}

Today == <<2026, 6, 15>>
\* the day after d (the model's dates stay inside one month)
NextDay(d) == <<d[1], d[2], d[3] + 1>>

TextSafe == <<"adults", SP, "may", SP, "benefit", SP, "from", SP, "screening">>
TextUnsafe == <<"you", SP, "have", SP, "diabetes">>

Rule(id, src, lo, hi, sx, cat, code, txt, rng) ==
  [valid |-> TRUE, id |-> id, source |-> src, ageMin |-> lo, ageMax |-> hi,
   sex |-> sx, category |-> cat, code |-> code, recommendation |-> txt, range |-> rng]

DIABETES_GUIDELINE ==
  Rule("uspstf-diabetes-screening", "USPSTF 2021", Some(35), Some(70), {"male", "female"},
       "lab", "glucose", TextSafe, Range(Some(70), Some(100)))
BREAST_CANCER_GUIDELINE ==
  Rule("uspstf-breast-cancer-screening", "USPSTF 2024", Some(40), Some(74), {"female"},
       "screening", "mammography", TextSafe, NoRange)
INFANT_GUIDELINE ==
  Rule("infant-checkup", "AAP", Some(0), Some(0), NoList,
       "vital", Null, TextSafe, Range(Some(90), Undef))
LAB_GUIDELINE ==
  Rule("any-lab", "USPSTF 2021", Undef, Undef, NoList,
       "lab", Null, TextUnsafe, Range(Undef, Some(100)))
TEEN_GUIDELINE ==
  Rule("teen-glucose", "AAP", Undef, Some(17), {"male"},
       "lab", "glucose", TextSafe, Range(Some(70), Undef))
BOGUS_GUIDELINE ==
  Rule("bogus-category", "USPSTF 2023", Some(18), Undef, NoList,
       "bogus", "hdl", TextSafe, NoRange)
INVALID_FILE == [DIABETES_GUIDELINE EXCEPT !.valid = FALSE, !.id = "not-a-guideline"]

BP_GUIDELINE ==
  Rule("uspstf-bp-screening", "USPSTF 2023", Some(18), Some(79), {"male", "female"},
       "vital", "blood-pressure-systolic", TextSafe, Range(Some(90), Some(130)))
\* a second rule on the trigger code and the source of DIABETES_GUIDELINE
PREDIABETES_GUIDELINE ==
  Rule("uspstf-prediabetes-followup", "USPSTF 2021", Some(35), Undef, NoList,
       "lab", "glucose", TextSafe, NoRange)

RuleCatalog == <<DIABETES_GUIDELINE, BREAST_CANCER_GUIDELINE, INFANT_GUIDELINE,
                 LAB_GUIDELINE, TEEN_GUIDELINE, BOGUS_GUIDELINE, INVALID_FILE>>

\* the rules the rule sets of SpecQuestions are drawn from: all carry a
\* trigger code, two of them the same code and source
QuestionCatalog == <<DIABETES_GUIDELINE, BREAST_CANCER_GUIDELINE, PREDIABETES_GUIDELINE,
                     TEEN_GUIDELINE, BOGUS_GUIDELINE, BP_GUIDELINE>>

\* ObservationCategorySchema: the categories an observation can have
ObservationCategories ==
  {"lab", "vital", "activity", "sleep", "nutrition", "survey", "screening"}

\* the subsequences of s with at most n elements
RECURSIVE SubSeqs(_, _)
SubSeqs(s, n) ==
  IF s = <<>> \/ n = 0 THEN {<<>>}
  ELSE SubSeqs(Tail(s), n) \cup {<<Head(s)>> \o x : x \in SubSeqs(Tail(s), n - 1)}

Obs(id, userId, cat, code, val, ts) ==
  [id |-> id, userId |-> userId, category |-> cat, code |-> code, value |-> val,
   timestamp |-> ts]

ObsCatalog == {Obs("obs-1", "u1", "lab", "glucose", 105, 3),
               Obs("obs-2", "u1", "vital", "blood-pressure-systolic", 89, 2),
               Obs("obs-3", "u1", "lab", "glucose", 100, 3),
               Obs("obs-4", "u1", "lab", "hdl", 69, 1),
               Obs("obs-5", "u1", "lab", "glucose", 70, 2)}

\* dates of birth: ages 0, 16, 35 (birthday today), 40 (birthday tomorrow), 70, 86 on Today
DobChoices == {Undef, <<2026, 1, 1>>, <<2010, 1, 1>>, <<1991, 6, 15>>, <<1985, 6, 16>>,
               <<1956, 6, 15>>, <<1940, 1, 1>>}
SexChoices == {Null, "male", "female", "other"}

UserRow(dob, sx) == [dateOfBirth |-> dob, sex |-> sx]

(***************************************************************************)
(* evaluateGuidelines(userId), one action per await.  What runs between    *)
(* two awaits runs without interruption.                                   *)
(***************************************************************************)
InFlight(r) == pc[r] \notin {"idle", "done", "failed", "off"}

\* the route handler calls evaluateGuidelines(uid[r]); getUserById is issued.
\* Evaluations for one user come one after the other; evaluations for
\* different users overlap freely.
Call(r) ==
  /\ pc[r] = "idle"
  /\ \A q \in Runs : InFlight(q) => uid[q] # uid[r]
  /\ pc' = [pc EXCEPT ![r] = "getUser"]
  /\ calledAt' = [calledAt EXCEPT ![r] = clock]
  /\ UNCHANGED <<sideVars, clock, dbVars, source, guidelinesCache, uid, error,
                 guidelines, observations, age, sex, user, idx, matchedRecommendations,
                 matchedRiskSignals, questions, result, lastRun>>

\* the same call made while earlier calls for the same user are still
\* running: the route handler does not wait for them
CallConcurrently(r) ==
  /\ pc[r] = "idle"
  /\ pc' = [pc EXCEPT ![r] = "getUser"]
  /\ calledAt' = [calledAt EXCEPT ![r] = clock]
  /\ UNCHANGED <<sideVars, clock, dbVars, source, guidelinesCache, uid, error,
                 guidelines, observations, age, sex, user, idx, matchedRecommendations,
                 matchedRiskSignals, questions, result, lastRun>>

\* getUserById resolves; `if (!user) throw`; loadGuidelines starts and
\* returns the cache when there is one, else issues readdir
GetUser(r) ==
  /\ pc[r] = "getUser"
  /\ LET u == getUserById(uid[r])
     IN  IF u = Undef
         THEN /\ pc' = [pc EXCEPT ![r] = "failed"]
              /\ error' = [error EXCEPT ![r] = "User not found"]
              /\ UNCHANGED <<user, guidelines>>
         ELSE /\ user' = [user EXCEPT ![r] = u]
              /\ error' = error
              /\ IF guidelinesCache # Undef
                 THEN /\ guidelines' = [guidelines EXCEPT ![r] = guidelinesCache[1]]
                      /\ pc' = [pc EXCEPT ![r] = "getObs"]
                 ELSE /\ guidelines' = guidelines
                      /\ pc' = [pc EXCEPT ![r] = "readFiles"]
  /\ UNCHANGED <<sideVars, clock, dbVars, source, guidelinesCache, uid,
                 observations, age, sex, idx, matchedRecommendations,
                 matchedRiskSignals, questions, result, calledAt, lastRun>>

\* readdir and the readFile of every file resolve; the files that parse
\* become the cache and the result; getObservationsByUser is issued
ReadFiles(r) ==
  /\ pc[r] = "readFiles"
  /\ guidelinesCache' = <<ParsedGuidelines(source)>>
  /\ guidelines' = [guidelines EXCEPT ![r] = ParsedGuidelines(source)]
  /\ pc' = [pc EXCEPT ![r] = "getObs"]
  /\ UNCHANGED <<sideVars, clock, dbVars, source, uid, error, observations, age,
                 sex, user, idx, matchedRecommendations, matchedRiskSignals, questions,
                 result, calledAt, lastRun>>

\* readdir or a readFile rejects, or a file is not JSON: the catch returns []
\* and leaves the cache alone
ReadFilesFail(r) ==
  /\ pc[r] = "readFiles"
  /\ guidelines' = [guidelines EXCEPT ![r] = <<>>]
  /\ pc' = [pc EXCEPT ![r] = "getObs"]
  /\ UNCHANGED <<sideVars, clock, dbVars, source, guidelinesCache, uid, error,
                 observations, age, sex, user, idx, matchedRecommendations,
                 matchedRiskSignals, questions, result, calledAt, lastRun>>

\* getObservationsByUser resolves; age and sex are computed;
\* clearRecommendationsByUser is issued
GetObs(r) ==
  /\ pc[r] = "getObs"
  /\ \E s \in getObservationsByUser(uid[r], ObsQueryLimit) :
       observations' = [observations EXCEPT ![r] = s]
  /\ age' = [age EXCEPT ![r] =
               IF user[r][1].dateOfBirth # Undef
               THEN Some(calculateAge(user[r][1].dateOfBirth, clock)) ELSE Undef]
  /\ sex' = [sex EXCEPT ![r] = user[r][1].sex]
  /\ pc' = [pc EXCEPT ![r] = "clearRecs"]
  /\ UNCHANGED <<sideVars, clock, dbVars, source, guidelinesCache, uid, error,
                 guidelines, user, idx, matchedRecommendations, matchedRiskSignals,
                 questions, result, calledAt, lastRun>>

\* getObservationsByUser rejects (the database is unreachable, for one): the
\* rejection leaves evaluateGuidelines at line 22
GetObsFail(r) ==
  /\ pc[r] = "getObs"
  /\ pc' = [pc EXCEPT ![r] = "failed"]
  /\ error' = [error EXCEPT ![r] = "getObservationsByUser rejected"]
  /\ UNCHANGED <<sideVars, clock, dbVars, source, guidelinesCache, uid,
                 guidelines, observations, age, sex, user, idx, matchedRecommendations,
                 matchedRiskSignals, questions, result, calledAt, lastRun>>

\* clearRecommendationsByUser resolves; clearRiskSignalsByUser is issued
ClearRecs(r) ==
  /\ pc[r] = "clearRecs"
  /\ recommendations' = clearRecommendationsByUser(uid[r])
  /\ pc' = [pc EXCEPT ![r] = "clearSigs"]
  /\ UNCHANGED <<sideVars, clock, users, obsTable, riskSignals, nextId, source,
                 guidelinesCache, uid, error, guidelines, observations, age, sex, user,
                 idx, matchedRecommendations, matchedRiskSignals, questions, result,
                 calledAt, lastRun>>

\* The loop from rule k on, up to its next await: the rules the eligibility
\* checks skip are passed over; at the first one they do not skip
\* createRecommendation is issued; after the last rule the function builds
\* its result and returns.  qs: the questions pushed so far.
Continue(r, k, qs, recs, sigs) ==
  LET j == NextMatch(guidelines[r], age[r], sex[r], k)
  IN  /\ questions' = [questions EXCEPT ![r] = qs]
      /\ IF j # 0
         THEN /\ idx' = [idx EXCEPT ![r] = j]
              /\ pc' = [pc EXCEPT ![r] = "createRec"]
              /\ UNCHANGED <<result, lastRun>>
         ELSE /\ idx' = [idx EXCEPT ![r] = Len(guidelines[r]) + 1]
              /\ pc' = [pc EXCEPT ![r] = "done"]
              /\ result' = [result EXCEPT ![r] =
                   <<[summary |-> <<Len(guidelines[r]), Len(recs), Len(sigs)>>,
                      recommendations |-> recs,
                      riskSignals |-> sigs,
                      questions |-> uniqueQuestions(qs)]>>]
              /\ lastRun' = [lastRun EXCEPT ![uid[r]] = r]

\* clearRiskSignalsByUser resolves; the profile questions are pushed and the
\* loop starts
ClearSigs(r) ==
  /\ pc[r] = "clearSigs"
  /\ riskSignals' = clearRiskSignalsByUser(uid[r])
  /\ Continue(r, 1, ProfileQuestions(age[r], sex[r], observations[r]), <<>>, <<>>)
  /\ UNCHANGED <<sideVars, clock, users, obsTable, recommendations, nextId, source,
                 guidelinesCache, uid, error, guidelines, observations, age, sex, user,
                 matchedRecommendations, matchedRiskSignals, calledAt>>

\* createRecommendation resolves for rule idx[r]; then either createRiskSignal
\* is issued or the loop goes on
CreateRec(r) ==
  /\ pc[r] = "createRec"
  /\ LET g == guidelines[r][idx[r]]
         rec == RecRow(nextId, uid[r], g)
         recs == Append(matchedRecommendations[r], rec)
     IN  /\ recommendations' = recommendations \cup {rec}
         /\ nextId' = nextId + 1
         /\ matchedRecommendations' = [matchedRecommendations EXCEPT ![r] = recs]
         /\ IF SignalDue(observations[r], g)
            THEN /\ pc' = [pc EXCEPT ![r] = "createSig"]
                 /\ UNCHANGED <<idx, questions, result, lastRun>>
            ELSE Continue(r, idx[r] + 1, questions[r] \o RuleQuestion(observations[r], g),
                          recs, matchedRiskSignals[r])
  /\ UNCHANGED <<sideVars, clock, users, obsTable, riskSignals, source,
                 guidelinesCache, uid, error, guidelines, observations, age, sex, user,
                 matchedRiskSignals, calledAt>>

\* createRiskSignal resolves for rule idx[r]; the loop goes on
CreateSig(r) ==
  /\ pc[r] = "createSig"
  /\ LET g == guidelines[r][idx[r]]
         signal == SignalRow(nextId, uid[r], g, latestObs(relevantObs(observations[r], g)))
         sigs == Append(matchedRiskSignals[r], signal)
     IN  /\ riskSignals' = riskSignals \cup {signal}
         /\ nextId' = nextId + 1
         /\ matchedRiskSignals' = [matchedRiskSignals EXCEPT ![r] = sigs]
         /\ Continue(r, idx[r] + 1, questions[r] \o RuleQuestion(observations[r], g),
                     matchedRecommendations[r], sigs)
  /\ UNCHANGED <<sideVars, clock, users, obsTable, recommendations, source,
                 guidelinesCache, uid, error, guidelines, observations, age, sex, user,
                 matchedRecommendations, calledAt>>

\* a day passes
Tick ==
  /\ clock[3] < Today[3] + MaxTicks
  /\ clock' = NextDay(clock)
  /\ UNCHANGED <<sideVars, dbVars, source, guidelinesCache, runVars>>

(***************************************************************************)
(* filterSafetyOutput called on a text                                     *)
(***************************************************************************)
Filter ==
  /\ fpc = "ready"
  /\ filtered' = filterSafetyOutput(text)
  /\ fpc' = "done"
  /\ UNCHANGED <<authVars, text, trendVars, timelineVars, loaderVars, evalVars>>

Chunks == { <<"you", SP, "have", SP>>,
            <<"you", SP, "likely", SP, "have", SP>>,
            <<"diabetes">>,
            <<SP>>,
            <<"!">>,
            <<"you", SP, "should", SP, "take", SP>>,
            <<"you", SP, "must", SP, "take", SP>>,
            <<"medication">>,
            <<"diabetes", SP, "medication">>,
            <<"go", SP, "to", SP, "the", SP, "ER">>,
            <<"immediately">> }

\* the texts made of at most n chunks
RECURSIVE Texts(_)
Texts(n) ==
  IF n = 0 THEN {<<>>}
  ELSE Texts(n - 1) \cup {c \o t : c \in Chunks, t \in Texts(n - 1)}

(***************************************************************************)
(* detectTrend called on a series                                          *)
(***************************************************************************)
DetectTrend ==
  /\ tpc = "ready"
  /\ \E res \in detectTrend(values) : trendResult' = res
  /\ values' = values       \* the sort works on the copy [...values]
  /\ tpc' = "done"
  /\ UNCHANGED <<authVars, filterVars, timelineVars, loaderVars, evalVars>>

(***************************************************************************)
(* GET /api/timeline, one action per await; days are counted as the day of *)
(* the month of the wall clock.                                            *)
(***************************************************************************)
\* the handler starts: the window and the bounds are worked out and the
\* first getObservationsByUser is issued
TimelineCall ==
  /\ tlpc = "idle"
  /\ effectiveFrom' =
       IF trendWindow(treq) # Null
       THEN Some((IF treq.to # Undef THEN treq.to[1] ELSE clock[3])
                 - windowToDays(trendWindow(treq)))
       ELSE treq.from
  /\ tcat' = 1
  /\ allObs' = <<>>
  /\ tlpc' = "fetch"
  /\ UNCHANGED <<authVars, treq, trendByCategory, summaryByCategory, tres, filterVars, trendVars,
                 loaderVars, evalVars>>

\* a getObservationsByUser resolves.  With a category list the rows are
\* pushed and the next category is fetched; after the last one allObs is
\* sorted.  Then the rows are grouped, detectTrend runs on every group, the
\* two maps are filled and countObservationsByUser is issued.
TimelineFetch ==
  /\ tlpc = "fetch"
  /\ LET categoryList == treq.categories
         cat == IF categoryList = <<>> THEN Null ELSE categoryList[tcat]
     IN  \E obs \in queryObservations(treq.userId, cat, effectiveFrom, treq.to,
                                       treq.limit, treq.offset) :
           IF categoryList # <<>> /\ tcat < Len(categoryList)
           THEN /\ allObs' = allObs \o obs
                /\ tcat' = tcat + 1
                /\ UNCHANGED <<tlpc, trendByCategory, summaryByCategory>>
           ELSE LET all == IF categoryList = <<>> THEN obs
                           ELSE SortByTimeDesc(allObs \o obs)
                    groups == groupByCategory(all)
                IN  /\ allObs' = all
                    /\ \E ch \in TrendChoices(groups) :
                         LET keys == {c \in DOMAIN groups : ch[c] # Undef}
                         IN  /\ trendByCategory' = [c \in keys |-> ch[c][1]]
                             /\ summaryByCategory' =
                                  [c \in keys |->
                                     generateTrendSummary(c, ch[c][1], trendWindow(treq))]
                    /\ tlpc' = "count"
                    /\ tcat' = tcat
  /\ UNCHANGED <<authVars, treq, effectiveFrom, tres, filterVars, trendVars, loaderVars, evalVars>>

\* countObservationsByUser resolves and res.json sends the response
TimelineCount ==
  /\ tlpc = "count"
  /\ tres' = <<[status |-> 200,
                userId |-> treq.userId,
                entries |-> [i \in 1..Len(allObs) |->
                               LET c == allObs[i].category
                                   has == c \in DOMAIN trendByCategory
                               IN  [observation |-> allObs[i],
                                    trend |-> IF has THEN trendByCategory[c].trend ELSE Null,
                                    anomaly |-> IF has THEN trendByCategory[c].anomaly
                                                ELSE FALSE]],
                trends |-> trendByCategory,
                summaries |-> summaryByCategory,
                totalCount |-> Cardinality({o \in obsTable : o.userId = treq.userId}),
                window |-> trendWindow(treq)]>>
  /\ tlpc' = "done"
  /\ UNCHANGED <<authVars, treq, tcat, effectiveFrom, allObs, trendByCategory, summaryByCategory,
                 filterVars, trendVars, loaderVars, evalVars>>

\* an upload stores one more observation of the user while the request runs
CreateObservations ==
  /\ tlpc \in {"fetch", "count"}
  /\ Cardinality({o \in obsTable : o.userId = treq.userId}) <= MaxObs
  /\ \E o \in ObsCatalog \ obsTable : obsTable' = obsTable \cup {o}
  /\ UNCHANGED <<sideVars, clock, users, recommendations, riskSignals, nextId, source,
                 guidelinesCache, runVars>>

\* the query strings of the requests: with and without a category list (one
\* category named twice), bounds, paging and a window (one of them invalid)
TimelineRequests ==
  [userId : {"u1"},
   categories : {<<>>, <<"lab">>, <<"vital", "lab">>, <<"lab", "lab">>},
   from : {Undef, Some(2)},
   to : {Undef, Some(2)},
   limit : {Undef, Some(1)},
   offset : {Undef, Some(1)},
   window : {Null, "7d", "1y"}]

(***************************************************************************)
(* loadGuidelines and clearGuidelinesCache, call by call.  An array is an  *)
(* address into heap; here guidelinesCache holds Null or <<address>>.  A   *)
(* caller calls loadGuidelines and then loops over the array it got, with  *)
(* awaits in the loop body (evaluator.ts lines 21 and 40, scheduler.ts lines 56 and 60).   *)
(***************************************************************************)
\* the guideline files at different times: same file names, other contents;
\* then a file less, then none
LoaderSources == {<<DIABETES_GUIDELINE, LAB_GUIDELINE>>,
                  <<BREAST_CANCER_GUIDELINE, INVALID_FILE>>,
                  <<DIABETES_GUIDELINE>>,
                  <<>>}

Resting(c) == lpc[c] \in {"idle", "finished"}

\* loadGuidelines returns the array at address a to caller c (h: the heap then)
Returns(c, a, h) ==
  /\ lret' = [lret EXCEPT ![c] = a]
  /\ retAt' = [retAt EXCEPT ![c] = h[a]]
  /\ lpc' = [lpc EXCEPT ![c] = "iterate"]

\* a load has succeeded with the array at address a
Succeeds(a, h) ==
  established' = IF established = Undef THEN <<h[a]>> ELSE established

\* (the array is cached before the loop fills it)
cacheBeforeLoop_Early(cache, arr) == <<arr>>

\* const guidelines = []: the cache is not assigned before the loop
cacheBeforeLoop(cache, arr) == cache

\* caller c calls loadGuidelines: the cached array is returned if there is
\* one, else readdir is issued
LoadCall(c) ==
  /\ Resting(c)
  /\ nCalls < MaxLoads
  /\ nCalls' = nCalls + 1
  /\ lpos' = [lpos EXCEPT ![c] = 0]
  /\ lseen' = [lseen EXCEPT ![c] = <<>>]
  /\ invalidated' = FALSE
  /\ IF guidelinesCache # Undef
     THEN Returns(c, guidelinesCache[1], heap)
     ELSE /\ lpc' = [lpc EXCEPT ![c] = "readdir"]
          /\ lret' = [lret EXCEPT ![c] = 0]
          /\ retAt' = [retAt EXCEPT ![c] = <<>>]
  /\ UNCHANGED <<authVars, readBeforeClear,
                 heap, larr, lnames, lidx, nUpdates, established, filterVars, trendVars,
                 timelineVars, clock, dbVars, source, guidelinesCache, runVars>>

\* readdir resolves: the .json names are kept, the local array is created and
\* the first readFile is issued (without files the empty array is cached and
\* returned)
LoadReaddir(c) ==
  /\ lpc[c] = "readdir"
  /\ LET arr == Len(heap) + 1
         h == Append(heap, <<>>)
     IN  /\ heap' = h
         /\ larr' = [larr EXCEPT ![c] = arr]
         /\ lnames' = [lnames EXCEPT ![c] = Len(source)]
         /\ IF Len(source) = 0
            THEN /\ guidelinesCache' = <<arr>>
                 /\ Returns(c, arr, h)
                 /\ Succeeds(arr, h)
                 /\ lidx' = lidx
            ELSE /\ guidelinesCache' = cacheBeforeLoop(guidelinesCache, arr)
                 /\ lidx' = [lidx EXCEPT ![c] = 1]
                 /\ lpc' = [lpc EXCEPT ![c] = "readFile"]
                 /\ UNCHANGED <<lret, retAt, established>>
  /\ UNCHANGED <<authVars, readBeforeClear,
                 lpos, lseen, nCalls, nUpdates, invalidated, filterVars, trendVars,
                 timelineVars, clock, dbVars, source, runVars>>

\* a readFile resolves with what the file holds now: it is parsed and, if
\* the schema accepts it, pushed; then the next readFile is issued, or after
\* the last file the array is cached and returned
LoadReadFile(c) ==
  /\ lpc[c] = "readFile"
  /\ lidx[c] <= Len(source)
  /\ LET arr == larr[c]
         content == source[lidx[c]]
         h == IF safeParseOk(content) THEN [heap EXCEPT ![arr] = Append(@, content)]
              ELSE heap
     IN  /\ heap' = h
         /\ IF lidx[c] < lnames[c]
            THEN /\ lidx' = [lidx EXCEPT ![c] = @ + 1]
                 /\ UNCHANGED <<guidelinesCache, lpc, lret, retAt, established>>
            ELSE /\ guidelinesCache' = <<arr>>
                 /\ Returns(c, arr, h)
                 /\ Succeeds(arr, h)
                 /\ lidx' = lidx
  /\ UNCHANGED <<authVars, readBeforeClear,
                 larr, lnames, lpos, lseen, nCalls, nUpdates, invalidated, filterVars,
                 trendVars, timelineVars, clock, dbVars, source, runVars>>

\* readdir or a readFile rejects (the file is gone, for one), or a file is
\* not JSON: the catch returns a new empty array and leaves the cache alone
LoadFail(c) ==
  /\ lpc[c] \in {"readdir", "readFile"}
  /\ LET a == Len(heap) + 1
         h == Append(heap, <<>>)
     IN  heap' = h /\ Returns(c, a, h)
  /\ UNCHANGED <<authVars, readBeforeClear,
                 larr, lnames, lidx, lpos, lseen, nCalls, nUpdates, established,
                 invalidated, filterVars, trendVars, timelineVars, evalVars>>

\* the caller's for-of loop visits the next element of the array it was
\* given, or ends
IterNext(c) ==
  /\ lpc[c] = "iterate"
  /\ IF lpos[c] < Len(heap[lret[c]])
     THEN /\ lseen' = [lseen EXCEPT ![c] = Append(@, heap[lret[c]][lpos[c] + 1])]
          /\ lpos' = [lpos EXCEPT ![c] = @ + 1]
          /\ lpc' = lpc
     ELSE /\ lpc' = [lpc EXCEPT ![c] = "finished"]
          /\ UNCHANGED <<lseen, lpos>>
  /\ UNCHANGED <<authVars, readBeforeClear,
                 heap, larr, lnames, lidx, lret, nCalls, nUpdates, retAt, established,
                 invalidated, filterVars, trendVars, timelineVars, evalVars>>

\* clearGuidelinesCache()
ClearCache ==
  /\ guidelinesCache' = Undef
  /\ established' = Undef
  /\ invalidated' = TRUE
  /\ readBeforeClear' = {a \in 1..Len(heap) : heap[a] # <<>>}
  /\ UNCHANGED <<authVars, heap, lpc, larr, lnames, lidx, lret, lpos, lseen, nCalls, nUpdates,
                 retAt, filterVars, trendVars, timelineVars, clock, dbVars, source,
                 runVars>>

\* the guideline files on disk are replaced
UpdateSource ==
  /\ nUpdates < MaxUpdates
  /\ nUpdates' = nUpdates + 1
  /\ source' \in LoaderSources \ {source}
  /\ UNCHANGED <<authVars, readBeforeClear,
                 heap, lpc, larr, lnames, lidx, lret, lpos, lseen, nCalls, retAt,
                 established, invalidated, filterVars, trendVars, timelineVars, clock,
                 dbVars, guidelinesCache, runVars>>

(***************************************************************************)
(* middleware/auth.ts: the refresh tokens.  A token is named by the number *)
(* of the generateRefreshToken call that made it: crypto.randomBytes(64)   *)
(* is taken never to give the same 64 bytes twice.  Callers present tokens *)
(* that were issued, or the string NoToken that never was.                 *)
(***************************************************************************)
REFRESH_TOKEN_TTL_DAYS == 30
NoToken == 0

\* (a delete that leaves the Map as it is)
storeDelete_Keep(store, token) == store

\* refreshTokenStore.delete(token)
storeDelete(store, token) == {e \in store : e.token # token}

\* refreshTokenStore.get(token): <<entry>>, or <<>> for undefined
storeGet(store, token) ==
  IF \E e \in store : e.token = token
  THEN <<CHOOSE e \in store : e.token = token>> ELSE <<>>

\* the Map after generateRefreshToken has set the new token
storeSet(store, token, userId) ==
  storeDelete(store, token)
    \cup {[token |-> token, userId |-> userId, expiresAt |-> authNow + REFRESH_TOKEN_TTL_DAYS]}

Called(op, t, res) ==
  /\ nOps' = nOps + 1
  /\ lastOp' = [op |-> op, token |-> t, result |-> res, spentBefore |-> t \in spent]

\* generateRefreshToken(payload) at login or registration
GenerateRefreshToken(u) ==
  /\ nOps < MaxOps
  /\ nIssued < MaxTokens
  /\ nIssued' = nIssued + 1
  /\ refreshTokenStore' = storeSet(refreshTokenStore, nIssued + 1, u)
  /\ Called("generate", nIssued + 1, nIssued + 1)
  /\ UNCHANGED <<authNow, nAdvances, spent, filterVars, trendVars, timelineVars, loaderVars, evalVars>>

\* rotateRefreshToken(oldToken): the token is removed; null (0 here) without
\* an entry or with an expired one; else a new refresh token for its user
RotateRefreshToken(t) ==
  /\ nOps < MaxOps
  /\ LET entry == storeGet(refreshTokenStore, t)
         removed == storeDelete(refreshTokenStore, t)
     IN  IF entry = <<>> \/ entry[1].expiresAt < authNow
         THEN /\ refreshTokenStore' = removed
              /\ nIssued' = nIssued
              /\ Called("rotate", t, 0)
         ELSE /\ nIssued < MaxTokens
              /\ nIssued' = nIssued + 1
              /\ refreshTokenStore' = storeSet(removed, nIssued + 1, entry[1].userId)
              /\ Called("rotate", t, nIssued + 1)
  /\ spent' = spent \cup {t}
  /\ UNCHANGED <<authNow, nAdvances, filterVars, trendVars, timelineVars, loaderVars, evalVars>>

\* invalidateRefreshToken(token) at logout: whether an entry was removed
InvalidateRefreshToken(t) ==
  /\ nOps < MaxOps
  /\ refreshTokenStore' = storeDelete(refreshTokenStore, t)
  /\ Called("invalidate", t, IF storeGet(refreshTokenStore, t) # <<>> THEN 1 ELSE 0)
  /\ spent' = spent \cup {t}
  /\ UNCHANGED <<authNow, nAdvances, nIssued, filterVars, trendVars, timelineVars, loaderVars,
                 evalVars>>

\* invalidateAllUserRefreshTokens(userId)
InvalidateAllUserRefreshTokens(u) ==
  /\ nOps < MaxOps
  /\ refreshTokenStore' = {e \in refreshTokenStore : e.userId # u}
  /\ Called("invalidateAll", NoToken, 0)
  /\ UNCHANGED <<authNow, nAdvances, nIssued, spent, filterVars, trendVars, timelineVars,
                 loaderVars, evalVars>>

\* time passes: a day, or the lifetime of a token
AdvanceTime ==
  /\ nAdvances < MaxAdvances
  /\ nAdvances' = nAdvances + 1
  /\ \E d \in {1, REFRESH_TOKEN_TTL_DAYS} : authNow' = authNow + d
  /\ UNCHANGED <<refreshTokenStore, nIssued, nOps, spent, lastOp, filterVars, trendVars,
                 timelineVars, loaderVars, evalVars>>

\* the levels and the steps the values of a series are made of
TrendBases == {-2, 0, 20}
TrendOffsets == 0..4
ShuffleValues == {0, 5}
\* a series whose slope, 0.6, is 0.05 times its mean, 12
TieSeries == <<0, 21, 27, 0>>

(***************************************************************************)
(* Initial states                                                          *)
(***************************************************************************)
RunInit ==
  /\ error = [r \in Runs |-> Null]
  /\ guidelines = [r \in Runs |-> <<>>]
  /\ observations = [r \in Runs |-> <<>>]
  /\ age = [r \in Runs |-> Undef]
  /\ sex = [r \in Runs |-> Null]
  /\ user = [r \in Runs |-> Undef]
  /\ idx = [r \in Runs |-> 0]
  /\ matchedRecommendations = [r \in Runs |-> <<>>]
  /\ matchedRiskSignals = [r \in Runs |-> <<>>]
  /\ questions = [r \in Runs |-> <<>>]
  /\ result = [r \in Runs |-> Undef]
  /\ calledAt = [r \in Runs |-> Undef]
  /\ lastRun = [u \in UserIds |-> 0]

FilterIdle == text = <<>> /\ filtered = <<>> /\ fpc = "off"
TrendIdle == values = <<>> /\ trendResult = <<>> /\ tpc = "off"
TimelineIdle ==
  /\ treq = <<>> /\ tlpc = "off" /\ tcat = 0 /\ effectiveFrom = <<>> /\ allObs = <<>>
  /\ trendByCategory = <<>> /\ summaryByCategory = <<>> /\ tres = <<>>
AuthIdle ==
  /\ refreshTokenStore = {}
  /\ authNow = 0
  /\ nIssued = 0
  /\ nOps = 0
  /\ nAdvances = 0
  /\ spent = {}
  /\ lastOp = [op |-> "none", token |-> 0, result |-> 0, spentBefore |-> FALSE]
LoaderIdle ==
  /\ heap = <<>>
  /\ lpc = [c \in Callers |-> "off"]
  /\ larr = [c \in Callers |-> 0]
  /\ lnames = [c \in Callers |-> 0]
  /\ lidx = [c \in Callers |-> 0]
  /\ lret = [c \in Callers |-> 0]
  /\ lpos = [c \in Callers |-> 0]
  /\ lseen = [c \in Callers |-> <<>>]
  /\ nCalls = 0
  /\ nUpdates = 0
  /\ retAt = [c \in Callers |-> <<>>]
  /\ established = <<>>
  /\ invalidated = FALSE
  /\ readBeforeClear = {}

\* the server with two users, their observations, the guideline files on
\* disk and MaxRuns requests to evaluate, each for some user id
Init ==
  /\ FilterIdle
  /\ TrendIdle
  /\ TimelineIdle
  /\ LoaderIdle
  /\ AuthIdle
  /\ clock = Today
  /\ users = [u \in {"u1", "u2"} |->
                IF u = "u1" THEN UserRow(<<1991, 6, 16>>, "male")
                ELSE UserRow(Undef, "female")]
  /\ obsTable = {Obs("obs-1", "u1", "lab", "glucose", 105, 3),
                 Obs("obs-6", "u2", "lab", "glucose", 90, 1)}
  /\ recommendations = {}
  /\ riskSignals = {}
  /\ nextId = 1
  /\ source = <<LAB_GUIDELINE, INVALID_FILE, DIABETES_GUIDELINE>>
  /\ guidelinesCache = Undef
  /\ pc = [r \in Runs |-> "idle"]
  /\ uid \in [Runs -> UserIds]
  /\ RunInit

Next ==
  \/ \E r \in Runs : Call(r)
  \/ \E r \in Runs : GetUser(r)
  \/ \E r \in Runs : ReadFiles(r)
  \/ \E r \in Runs : ReadFilesFail(r)
  \/ \E r \in Runs : GetObs(r)
  \/ \E r \in Runs : ClearRecs(r)
  \/ \E r \in Runs : ClearSigs(r)
  \/ \E r \in Runs : CreateRec(r)
  \/ \E r \in Runs : CreateSig(r)
  \/ Tick

Spec == Init /\ [][Next]_vars

\* one user with any profile, any observations and any guideline files, and
\* one request to evaluate
InitEval ==
  /\ FilterIdle
  /\ TrendIdle
  /\ TimelineIdle
  /\ LoaderIdle
  /\ AuthIdle
  /\ clock = Today
  /\ \E dob \in DobChoices, sx \in SexChoices : users = [u \in {"u1"} |-> UserRow(dob, sx)]
  /\ obsTable \in {S \in SUBSET ObsCatalog : Cardinality(S) <= MaxObs}
  /\ recommendations = {}
  /\ riskSignals = {}
  /\ nextId = 1
  /\ source \in {s \in SubSeqs(RuleCatalog, MaxRules) : TRUE}
  /\ guidelinesCache = Undef
  /\ pc = [r \in Runs |-> IF r = 1 THEN "idle" ELSE "off"]
  /\ uid = [r \in Runs |-> "u1"]
  /\ RunInit

NextEval ==
  \/ \E r \in Runs : Call(r)
  \/ \E r \in Runs : GetUser(r)
  \/ \E r \in Runs : ReadFiles(r)
  \/ \E r \in Runs : GetObs(r)
  \/ \E r \in Runs : ClearRecs(r)
  \/ \E r \in Runs : ClearSigs(r)
  \/ \E r \in Runs : CreateRec(r)
  \/ \E r \in Runs : CreateSig(r)

SpecEval == InitEval /\ [][NextEval]_vars

\* one user with or without date of birth, sex and observations, rule sets of
\* up to MaxRuleSet rules that all carry a trigger code, and one request to
\* evaluate
InitQuestions ==
  /\ FilterIdle
  /\ TrendIdle
  /\ TimelineIdle
  /\ LoaderIdle
  /\ AuthIdle
  /\ clock = Today
  /\ \E dob \in {Undef, <<1985, 6, 15>>}, sx \in {Null, "female"} :
        users = [u \in {"u1"} |-> UserRow(dob, sx)]
  /\ obsTable \in {{}, {Obs("obs-1", "u1", "lab", "glucose", 105, 3)}}
  /\ recommendations = {}
  /\ riskSignals = {}
  /\ nextId = 1
  /\ source \in SubSeqs(QuestionCatalog, MaxRuleSet)
  /\ guidelinesCache = Undef
  /\ pc = [r \in Runs |-> IF r = 1 THEN "idle" ELSE "off"]
  /\ uid = [r \in Runs |-> "u1"]
  /\ RunInit

SpecQuestions == InitQuestions /\ [][NextEval]_vars

\* a text handed to the filter
InitFilter ==
  /\ text \in Texts(MaxChunks)
  /\ filtered = <<>>
  /\ fpc = "ready"
  /\ TrendIdle
  /\ TimelineIdle
  /\ LoaderIdle
  /\ AuthIdle
  /\ clock = Today
  /\ users = [u \in {"u1"} |-> UserRow(Undef, Null)]
  /\ obsTable = {}
  /\ recommendations = {}
  /\ riskSignals = {}
  /\ nextId = 1
  /\ source = <<>>
  /\ guidelinesCache = Undef
  /\ pc = [r \in Runs |-> "off"]
  /\ uid = [r \in Runs |-> "u1"]
  /\ RunInit

NextFilter == Filter

\* evaluateGuidelines is not running
EvalOff ==
  /\ clock = Today
  /\ users = [u \in {"u1"} |-> UserRow(Undef, Null)]
  /\ obsTable = {}
  /\ recommendations = {}
  /\ riskSignals = {}
  /\ nextId = 1
  /\ guidelinesCache = Undef
  /\ pc = [r \in Runs |-> "off"]
  /\ uid = [r \in Runs |-> "u1"]
  /\ RunInit

\* a series of up to MaxPoints measurements, one per day, handed to
\* detectTrend oldest first or newest first
InitTrend ==
  /\ FilterIdle
  /\ EvalOff
  /\ source = <<>>
  /\ \/ \E n \in 0..MaxPoints :
          \E b \in TrendBases, off \in [1..n -> TrendOffsets], newestFirst \in BOOLEAN :
            values = [i \in 1..n |->
                        LET day == IF newestFirst THEN n + 1 - i ELSE i
                        IN  Point(b + off[day], day)]
     \/ values = [i \in 1..Len(TieSeries) |-> Point(TieSeries[i], i)]
  /\ trendResult = <<>>
  /\ tpc = "ready"
  /\ TimelineIdle
  /\ LoaderIdle
  /\ AuthIdle

NextTrend == DetectTrend

SpecTrend == InitTrend /\ [][NextTrend]_vars

\* a series of up to MaxShuffle points in any order, timestamps equal or not
InitTrendOrder ==
  /\ FilterIdle
  /\ EvalOff
  /\ source = <<>>
  /\ \E n \in 0..MaxShuffle :
       values \in [1..n -> {Point(v, ts) : v \in ShuffleValues, ts \in 1..n}]
  /\ trendResult = <<>>
  /\ tpc = "ready"
  /\ TimelineIdle
  /\ LoaderIdle
  /\ AuthIdle

SpecTrendOrder == InitTrendOrder /\ [][NextTrend]_vars

\* one timeline request of user u1, who has up to MaxObs observations stored;
\* another user has one
InitTimeline ==
  /\ FilterIdle
  /\ TrendIdle
  /\ treq \in TimelineRequests
  /\ tlpc = "idle"
  /\ tcat = 0
  /\ effectiveFrom = <<>>
  /\ allObs = <<>>
  /\ trendByCategory = <<>>
  /\ summaryByCategory = <<>>
  /\ tres = <<>>
  /\ LoaderIdle
  /\ AuthIdle
  /\ clock = Today
  /\ users = [u \in {"u1", "u2"} |-> UserRow(Undef, Null)]
  /\ \E S \in SUBSET ObsCatalog :
       /\ Cardinality(S) <= MaxObs
       /\ obsTable = S \cup {Obs("obs-6", "u2", "lab", "glucose", 90, 1)}
  /\ recommendations = {}
  /\ riskSignals = {}
  /\ nextId = 1
  /\ source = <<>>
  /\ guidelinesCache = Undef
  /\ pc = [r \in Runs |-> "off"]
  /\ uid = [r \in Runs |-> "u1"]
  /\ RunInit

NextTimeline ==
  \/ TimelineCall
  \/ TimelineFetch
  \/ TimelineCount
  \/ CreateObservations

SpecTimeline == InitTimeline /\ [][NextTimeline]_vars

\* the server after start: nothing cached, the callers about to call
InitLoader ==
  /\ FilterIdle
  /\ TrendIdle
  /\ TimelineIdle
  /\ AuthIdle
  /\ EvalOff
  /\ source = <<DIABETES_GUIDELINE, LAB_GUIDELINE>>
  /\ heap = <<>>
  /\ lpc = [c \in Callers |-> "idle"]
  /\ larr = [c \in Callers |-> 0]
  /\ lnames = [c \in Callers |-> 0]
  /\ lidx = [c \in Callers |-> 0]
  /\ lret = [c \in Callers |-> 0]
  /\ lpos = [c \in Callers |-> 0]
  /\ lseen = [c \in Callers |-> <<>>]
  /\ nCalls = 0
  /\ nUpdates = 0
  /\ retAt = [c \in Callers |-> <<>>]
  /\ established = <<>>
  /\ invalidated = FALSE
  /\ readBeforeClear = {}

NextLoader ==
  \/ \E c \in Callers : LoadCall(c)
  \/ \E c \in Callers : LoadReaddir(c)
  \/ \E c \in Callers : LoadReadFile(c)
  \/ \E c \in Callers : LoadFail(c)
  \/ \E c \in Callers : IterNext(c)
  \/ ClearCache
  \/ UpdateSource

SpecLoader == InitLoader /\ [][NextLoader]_vars

\* one user aged 35 with a glucose value above both ranges or none, the lab
\* rule and the diabetes rule or one of them on disk, and MaxRuns requests
\* to evaluate that user, none waiting for another
InitOverlap ==
  /\ FilterIdle
  /\ TrendIdle
  /\ TimelineIdle
  /\ LoaderIdle
  /\ AuthIdle
  /\ clock = Today
  /\ users = [u \in {"u1"} |-> UserRow(<<1991, 6, 15>>, "male")]
  /\ obsTable \in {{}, {Obs("obs-1", "u1", "lab", "glucose", 105, 3)}}
  /\ recommendations = {}
  /\ riskSignals = {}
  /\ nextId = 1
  /\ source \in SubSeqs(<<LAB_GUIDELINE, DIABETES_GUIDELINE>>, MaxRules) \ {<<>>}
  /\ guidelinesCache = Undef
  /\ pc = [r \in Runs |-> "idle"]
  /\ uid = [r \in Runs |-> "u1"]
  /\ RunInit

NextOverlap ==
  \/ \E r \in Runs : CallConcurrently(r)
  \/ \E r \in Runs : GetUser(r)
  \/ \E r \in Runs : ReadFiles(r)
  \/ \E r \in Runs : GetObs(r)
  \/ \E r \in Runs : ClearRecs(r)
  \/ \E r \in Runs : ClearSigs(r)
  \/ \E r \in Runs : CreateRec(r)
  \/ \E r \in Runs : CreateSig(r)

SpecOverlap == InitOverlap /\ [][NextOverlap]_vars

\* the server after a restart: the tables hold what an earlier evaluation of
\* user u1 persisted, the cache is cold, the lab rule and the diabetes rule
\* or one of them are on disk, and MaxRuns requests, one after the other,
\* ask for u1 or for a user id that does not exist
InitRestart ==
  /\ FilterIdle
  /\ TrendIdle
  /\ TimelineIdle
  /\ LoaderIdle
  /\ AuthIdle
  /\ clock = Today
  /\ users = [u \in {"u1"} |-> UserRow(<<1991, 6, 15>>, "male")]
  /\ obsTable \in {{}, {Obs("obs-1", "u1", "lab", "glucose", 105, 3)}}
  /\ recommendations = {RecRow(1, "u1", LAB_GUIDELINE)}
  /\ riskSignals = {SignalRow(2, "u1", LAB_GUIDELINE, o) : o \in obsTable}
  /\ nextId = 3
  /\ source \in SubSeqs(<<LAB_GUIDELINE, DIABETES_GUIDELINE>>, MaxRules) \ {<<>>}
  /\ guidelinesCache = Undef
  /\ pc = [r \in Runs |-> "idle"]
  /\ uid \in [Runs -> {"u1", Ghost}]
  /\ RunInit

NextRestart ==
  \/ \E r \in Runs : Call(r)
  \/ \E r \in Runs : GetUser(r)
  \/ \E r \in Runs : ReadFiles(r)
  \/ \E r \in Runs : ReadFilesFail(r)
  \/ \E r \in Runs : GetObs(r)
  \/ \E r \in Runs : GetObsFail(r)
  \/ \E r \in Runs : ClearRecs(r)
  \/ \E r \in Runs : ClearSigs(r)
  \/ \E r \in Runs : CreateRec(r)
  \/ \E r \in Runs : CreateSig(r)

SpecRestart == InitRestart /\ [][NextRestart]_vars

\* the server after start: no refresh token stored
InitAuth ==
  /\ FilterIdle
  /\ TrendIdle
  /\ TimelineIdle
  /\ LoaderIdle
  /\ AuthIdle
  /\ EvalOff
  /\ source = <<>>

NextAuth ==
  \/ \E u \in {"u1", "u2"} : GenerateRefreshToken(u)
  \/ \E t \in NoToken..nIssued : RotateRefreshToken(t)
  \/ \E t \in NoToken..nIssued : InvalidateRefreshToken(t)
  \/ \E u \in {"u1", "u2"} : InvalidateAllUserRefreshTokens(u)
  \/ AdvanceTime

SpecAuth == InitAuth /\ [][NextAuth]_vars

SpecFilter == InitFilter /\ [][NextFilter]_vars

(***************************************************************************)
(* Properties                                                              *)
(***************************************************************************)
Done(r) == pc[r] = "done"
Returned(r) == result[r][1]
StripId(row) == [f \in (DOMAIN row) \ {"id"} |-> row[f]]
StripIds(rows) == [i \in 1..Len(rows) |-> StripId(rows[i])]
RowsOf(table, u) == {x \in table : x.userId = u}
\* the rules of run r's collection, as a set
RulesOf(r) == SeqToSet(guidelines[r])
HasRec(r, g) ==
  \E i \in 1..Len(Returned(r).recommendations) :
     Returned(r).recommendations[i].guidelineId = g.id
HasSignal(r, g) ==
  \E i \in 1..Len(Returned(r).riskSignals) :
     Returned(r).riskSignals[i].guidelineId = g.id

\* C1: for every input text, the text filterSafetyOutput returns passes
\* isSafeOutput: no disallowed pattern matches it any more.
C1_FilterOutputIsSafe == fpc = "done" => isSafeOutput(filtered)

\* C2: two evaluations that got the same profile, the same observations and
\* the same rules return the same recommendations and risk signals (ids
\* aside), whatever the wall clock was when each ran.
C2_SameInputsSameResult ==
  \A r1, r2 \in Runs :
     (/\ Done(r1) /\ Done(r2)
      /\ uid[r1] = uid[r2]
      /\ user[r1] = user[r2]
      /\ observations[r1] = observations[r2]
      /\ guidelines[r1] = guidelines[r2])
     => /\ StripIds(Returned(r1).recommendations) = StripIds(Returned(r2).recommendations)
        /\ StripIds(Returned(r1).riskSignals) = StripIds(Returned(r2).riskSignals)

\* C3: when no evaluation for a user is running, the persisted
\* recommendations and risk signals of that user are exactly the rows the
\* last evaluation that returned for that user created.
C3_LastRunReplacesAll ==
  \A u \in DOMAIN users :
     (lastRun[u] # 0 /\ \A r \in Runs : InFlight(r) => uid[r] # u)
     => /\ RowsOf(recommendations, u) = SeqToSet(matchedRecommendations[lastRun[u]])
        /\ RowsOf(riskSignals, u) = SeqToSet(matchedRiskSignals[lastRun[u]])
        /\ Cardinality(RowsOf(recommendations, u)) = Len(matchedRecommendations[lastRun[u]])

\* two evaluations for u1 have returned one after the other, the first one
\* created rows, and so did the second
C3_Witness ==
  /\ \A r \in Runs : Done(r) /\ uid[r] = "u1"
  /\ lastRun["u1"] = 2
  /\ matchedRecommendations[1] # <<>>
  /\ matchedRiskSignals[1] # <<>>
  /\ matchedRecommendations[2] # <<>>

\* C4: a step of getUserById that finds no user ends the evaluation with
\* 'User not found'; it loads no guideline, touches neither the cache nor a
\* persisted row, and the evaluation takes no step after it.
C4_UserNotFoundStops ==
  [][\A r \in Runs :
       /\ (pc[r] = "getUser" /\ uid[r] \notin DOMAIN users /\ pc'[r] # pc[r])
          => /\ pc'[r] = "failed"
             /\ error'[r] = "User not found"
             /\ guidelines'[r] = <<>>
             /\ guidelinesCache' = guidelinesCache
             /\ recommendations' = recommendations
             /\ riskSignals' = riskSignals
       /\ pc[r] = "failed"
          => /\ pc'[r] = "failed"
             /\ matchedRecommendations'[r] = <<>>
             /\ matchedRiskSignals'[r] = <<>>
             /\ result'[r] = Undef]_vars

\* an evaluation for the unknown user id has failed while rows of another
\* user are persisted
C4_Witness ==
  \E r \in Runs :
     /\ pc[r] = "failed"
     /\ error[r] = "User not found"
     /\ uid[r] = Ghost
     /\ recommendations # {}
     /\ riskSignals # {}

\* C5: the recommendations of a returned evaluation are, in rule order, one
\* for each rule that passes the age and sex checks and none for the others,
\* with or without a relevant observation.
C5_OneRecPerEligibleRule ==
  \A r \in Runs :
     Done(r) =>
       LET passing == SelectSeq(guidelines[r], LAMBDA g : Eligible(g, age[r], sex[r]))
           recs == Returned(r).recommendations
       IN  /\ Len(recs) = Len(passing)
           /\ \A i \in 1..Len(recs) : recs[i].guidelineId = passing[i].id
           /\ recs = matchedRecommendations[r]
           /\ SeqToSet(recs) \subseteq recommendations

\* an evaluation returned with a recommendation for a rule no observation is
\* relevant to, and with a rule left out
C5_Witness ==
  \E r \in Runs :
     /\ Done(r)
     /\ \E g \in RulesOf(r) : HasRec(r, g) /\ relevantObs(observations[r], g) = <<>>
     /\ \E g \in RulesOf(r) : ~HasRec(r, g)
     /\ observations[r] # <<>>

\* the exclusion by age as stated: a bound the rule carries, 0 included,
\* lies on the wrong side of the age
AgeOutside(g, a) ==
  \/ g.ageMin # Undef /\ g.ageMin[1] > a
  \/ g.ageMax # Undef /\ g.ageMax[1] < a

\* C6: with the age known, a rule (that the sex check lets through) is left
\* out exactly when its ageMin is above the age or its ageMax below it,
\* whatever numbers the bounds are; an age equal to a bound matches.
C6_AgeRangeExcludes ==
  \A r \in Runs :
     (Done(r) /\ age[r] # Undef) =>
       \A g \in RulesOf(r) :
          SexEligible(g, sex[r]) => (HasRec(r, g) <=> ~AgeOutside(g, age[r][1]))

\* C7: with the sex known, a rule (that the age check lets through) is left
\* out exactly when it has an allow-list and the sex is not in it; a rule
\* without an allow-list is never left out by the sex check.
C7_SexListExcludes ==
  \A r \in Runs :
     Done(r) =>
       \A g \in RulesOf(r) :
          AgeEligible(g, age[r]) =>
            /\ sex[r] # Null => (HasRec(r, g) <=> (g.sex = NoList \/ sex[r] \in g.sex))
            /\ g.sex = NoList => HasRec(r, g)

\* an evaluation for a user of known sex returned: a rule whose list lacks
\* the sex was left out, a rule whose list holds it was not
C7_Witness ==
  \E r \in Runs :
     /\ Done(r)
     /\ sex[r] # Null
     /\ \E g \in RulesOf(r) :
          g.sex # NoList /\ sex[r] \notin g.sex /\ AgeEligible(g, age[r]) /\ ~HasRec(r, g)
     /\ \E g \in RulesOf(r) : g.sex # NoList /\ sex[r] \in g.sex /\ HasRec(r, g)

\* C8: without a date of birth no rule is left out by its age bounds, and
\* without a sex no rule is left out by its allow-list; the rules get their
\* recommendation.
C8_UnknownNeverExcludes ==
  \A r \in Runs :
     Done(r) =>
       \A g \in RulesOf(r) :
          /\ user[r][1].dateOfBirth = Undef => (SexEligible(g, sex[r]) => HasRec(r, g))
          /\ user[r][1].sex = Null => (AgeEligible(g, age[r]) => HasRec(r, g))
          /\ (user[r][1].dateOfBirth = Undef /\ user[r][1].sex = Null) => HasRec(r, g)

\* an evaluation for a user without date of birth and without sex returned a
\* recommendation for a rule that has age bounds and an allow-list
C8_Witness ==
  \E r \in Runs :
     /\ Done(r)
     /\ user[r][1].dateOfBirth = Undef
     /\ user[r][1].sex = Null
     /\ \E g \in RulesOf(r) :
          g.ageMin # Undef /\ g.ageMax # Undef /\ g.sex # NoList /\ HasRec(r, g)

\* a value violates a range: strictly below its min or strictly above its max
Violates(g, v) ==
  \/ g.range.min # Undef /\ v < g.range.min[1]
  \/ g.range.max # Undef /\ v > g.range.max[1]

\* the positions of the observations of s that rule g's trigger selects
RelevantAt(s, g) ==
  {i \in 1..Len(s) : s[i].category = g.category /\ (g.code = Null \/ s[i].code = g.code)}

\* C9: a rule with a recommendation has a risk signal exactly when it has a
\* reference range, a relevant observation exists and the value of the first
\* relevant observation of the snapshot is strictly outside the range; it has
\* at most one, of severity 'watch' and with that value as currentValue.
C9_SignalIffOutOfRange ==
  \A r \in Runs :
     Done(r) =>
       \A g \in RulesOf(r) :
          HasRec(r, g) =>
            LET at == RelevantAt(observations[r], g)
                sigs == {i \in 1..Len(Returned(r).riskSignals) :
                           Returned(r).riskSignals[i].guidelineId = g.id}
            IN  /\ HasSignal(r, g) <=>
                     (/\ g.range.defined
                      /\ at # {}
                      /\ Violates(g, observations[r][Min(at)].value))
                /\ Cardinality(sigs) <= 1
                /\ \A i \in sigs :
                     /\ Returned(r).riskSignals[i].severity = "watch"
                     /\ Returned(r).riskSignals[i].currentValue
                          = observations[r][Min(at)].value
                     /\ Returned(r).riskSignals[i] \in riskSignals

\* an evaluation returned a risk signal for one rule and none for a rule
\* whose latest relevant value sits on a bound of its range
C9_Witness ==
  \E r \in Runs :
     /\ Done(r)
     /\ \E g \in RulesOf(r) : HasSignal(r, g)
     /\ \E g \in RulesOf(r) :
          /\ HasRec(r, g) /\ ~HasSignal(r, g) /\ g.range.defined
          /\ RelevantAt(observations[r], g) # {}
          /\ << observations[r][Min(RelevantAt(observations[r], g))].value >>
               \in {g.range.min, g.range.max}

\* C10: the observation a rule's range is tested against has the greatest
\* timestamp among the stored observations of the user the trigger selects,
\* and among those of that timestamp it is the first of the snapshot,
\* whichever order the query returned rows of equal timestamp in.
C10_LatestObservationTested ==
  \A r \in Runs :
     Done(r) =>
       \A g \in RulesOf(r) :
          (HasRec(r, g) /\ g.range.defined /\ RelevantAt(observations[r], g) # {}) =>
            LET s == observations[r]
                at == RelevantAt(s, g)
                stored == {o \in RowsOf(obsTable, uid[r]) :
                             o.category = g.category /\ (g.code = Null \/ o.code = g.code)}
                newest == {i \in at : \A o \in stored : s[i].timestamp >= o.timestamp}
            IN  /\ newest # {}
                /\ HasSignal(r, g) <=> Violates(g, s[Min(newest)].value)
                /\ \A i \in 1..Len(Returned(r).riskSignals) :
                     Returned(r).riskSignals[i].guidelineId = g.id
                     => Returned(r).riskSignals[i].currentValue = s[Min(newest)].value

\* an evaluation tested a rule against the newer of two relevant
\* observations of different timestamps, the older one alone being in range
C10_Witness ==
  \E r \in Runs :
     /\ Done(r)
     /\ \E g \in RulesOf(r) :
          /\ HasSignal(r, g)
          /\ \E i, j \in RelevantAt(observations[r], g) :
               /\ observations[r][i].timestamp > observations[r][j].timestamp
               /\ Violates(g, observations[r][i].value)
               /\ ~Violates(g, observations[r][j].value)

\* the questions the code pushes for a profile, a snapshot and a rule
\* collection from rule k on: one per rule that passes the age and sex checks,
\* carries a trigger code and has no relevant observation, in rule order
RECURSIVE RuleQuestionsFrom(_, _, _, _, _)
RuleQuestionsFrom(gs, a, sx, obsSeq, k) ==
  IF k > Len(gs) THEN <<>>
  ELSE (IF /\ Eligible(gs[k], a, sx)
           /\ gs[k].code # Null
           /\ RelevantAt(obsSeq, gs[k]) = {}
        THEN <<Q_MISSING(gs[k])>> ELSE <<>>)
       \o RuleQuestionsFrom(gs, a, sx, obsSeq, k + 1)

\* the positions of s that hold the first occurrence of their entry
FirstSeenAt(s) == {i \in 1..Len(s) : \A j \in 1..(i - 1) : s[j] # s[i]}

\* the n-th smallest element of the set of numbers S
Nth(S, n) == CHOOSE i \in S : Cardinality({j \in S : j <= i}) = n

\* C11: the question list returned has no two equal entries and at most 5
\* entries, and it is the longest such prefix of the accumulated questions in
\* first-seen order, the accumulated questions being the profile questions
\* followed by the per-rule questions in rule order.
C11_QuestionsUniqueCappedPrefix ==
  \A r \in Runs :
     Done(r) =>
       LET qs == Returned(r).questions
           acc == questions[r]
           first == FirstSeenAt(acc)
       IN  /\ acc = ProfileQuestions(age[r], sex[r], observations[r])
                    \o RuleQuestionsFrom(guidelines[r], age[r], sex[r], observations[r], 1)
           /\ \A i, j \in 1..Len(qs) : qs[i] = qs[j] => i = j
           /\ Len(qs) <= 5
           /\ Len(qs) = Min({5, Cardinality(first)})
           /\ \A n \in 1..Len(qs) : qs[n] = acc[Nth(first, n)]

\* an evaluation returned 5 questions out of more than 5 distinct
\* accumulated ones, one of which had been pushed twice before the cut
C11_Witness ==
  \E r \in Runs :
     /\ Done(r)
     /\ Cardinality(FirstSeenAt(questions[r])) > 5
     /\ Len(Returned(r).questions) = 5
     /\ \E i, j \in 1..5 : i < j /\ questions[r][i] = questions[r][j]

\* C12: for a profile without date of birth and without sex and an empty
\* snapshot of observations, whatever the rules, the first three questions
\* returned are the date-of-birth, the sex and the no-data question, in that
\* order, and they are distinct.
C12_ThreeProfileQuestionsFirst ==
  \A r \in Runs :
     (/\ Done(r)
      /\ user[r][1].dateOfBirth = Undef
      /\ user[r][1].sex = Null
      /\ observations[r] = <<>>)
     => LET qs == Returned(r).questions
        IN  /\ Len(qs) >= 3
            /\ qs[1] = <<"Date of birth is needed for age-based screening recommendations.">>
            /\ qs[2] = <<"Biological sex helps personalize screening guidelines.">>
            /\ qs[3] = <<"No health data uploaded yet.">>
            /\ Cardinality({qs[1], qs[2], qs[3]}) = 3

\* an evaluation for such a profile returned with rules that pushed
\* questions of their own after the three
C12_Witness ==
  \E r \in Runs :
     /\ Done(r)
     /\ user[r][1].dateOfBirth = Undef
     /\ user[r][1].sex = Null
     /\ observations[r] = <<>>
     /\ Len(guidelines[r]) >= 3
     /\ Len(Returned(r).questions) = 5

\* C13: a rule whose trigger category is not an observation category gets no
\* recommendation and no risk signal; the evaluation still returns, and the
\* other rules are treated as the age and sex checks decide.
C13_UnknownCategorySkipped ==
  \A r \in Runs :
     Done(r) =>
       \A g \in RulesOf(r) :
          IF g.category \in ObservationCategories
          THEN HasRec(r, g) <=> Eligible(g, age[r], sex[r])
          ELSE ~HasRec(r, g) /\ ~HasSignal(r, g)

TrendDone == tpc = "done"
\* the object detectTrend returned (when it is not null)
Trend == trendResult[1]
\* the values of the series in the order of their timestamps, which are distinct
DistinctTimestamps(vals) ==
  \A i, j \in 1..Len(vals) : vals[i].timestamp = vals[j].timestamp => i = j
Chrono(vals) ==
  [k \in 1..Len(vals) |->
     vals[CHOOSE i \in 1..Len(vals) :
            Cardinality({j \in 1..Len(vals) : vals[j].timestamp <= vals[i].timestamp}) = k]]
IncreasingInTime(vals) ==
  \A i, j \in 1..Len(vals) :
     vals[i].timestamp < vals[j].timestamp => vals[i].value < vals[j].value
DecreasingInTime(vals) ==
  \A i, j \in 1..Len(vals) :
     vals[i].timestamp < vals[j].timestamp => vals[i].value > vals[j].value
Constant(vals) == \A i, j \in 1..Len(vals) : vals[i].value = vals[j].value
\* the sum of the values of the series
Total(vals) == SumSeq([i \in 1..Len(vals) |-> vals[i].value])
\* |slope| < 0.05 * |mean| (0.05 when the mean is 0) and |slope| > the same,
\* for the slope q = <<numerator, denominator>> of the series vals
BelowThreshold(q, vals) ==
  IF Total(vals) = 0 THEN 20 * Abs(q[1]) < q[2]
  ELSE 20 * Abs(q[1]) * Len(vals) < Abs(Total(vals)) * q[2]
AboveThreshold(q, vals) ==
  IF Total(vals) = 0 THEN 20 * Abs(q[1]) > q[2]
  ELSE 20 * Abs(q[1]) * Len(vals) > Abs(Total(vals)) * q[2]

\* C14: detectTrend returns null for every series of 0 or 1 points and a
\* TrendResult, with one of the three trend labels, for every series of 2 or
\* more points.
C14_NullIffFewerThanTwo ==
  TrendDone =>
    /\ Len(values) <= 1 => trendResult = Undef
    /\ Len(values) >= 2 =>
         /\ trendResult # Undef
         /\ Trend.trend \in {"improving", "stable", "declining"}
         /\ Trend.anomaly \in BOOLEAN

\* detectTrend returned null for a series of exactly one point
C14_Witness == TrendDone /\ Len(values) = 1 /\ trendResult = Undef

\* C15 as stated: every series of 5 points strictly increasing in time is
\* 'improving' with a positive slope, every strictly decreasing one
\* 'declining' with a negative slope, every constant series 'stable'.
C15_MonotoneSeriesLabelled ==
  (TrendDone /\ Len(values) >= 2) =>
    /\ (Len(values) = 5 /\ IncreasingInTime(values))
         => Trend.trend = "improving" /\ Trend.slope[1] > 0
    /\ (Len(values) = 5 /\ DecreasingInTime(values))
         => Trend.trend = "declining" /\ Trend.slope[1] < 0
    /\ Constant(values) => Trend.trend = "stable"

\* C15 amended: a series of 5 points strictly increasing in time has a
\* positive slope and is 'improving', or 'stable' if the slope is below the
\* threshold of 5% of the mean; a strictly decreasing one has a negative
\* slope and is 'declining', or 'stable' below the threshold; a constant
\* series is 'stable'.
C15_MonotoneSeriesUpToThreshold ==
  (TrendDone /\ Len(values) >= 2) =>
    /\ (Len(values) = 5 /\ IncreasingInTime(values))
         => /\ Trend.slope[1] > 0 /\ Trend.slope[2] > 0
            /\ Trend.trend \in {"improving", "stable"}
            /\ BelowThreshold(Trend.slope, values) => Trend.trend = "stable"
            /\ AboveThreshold(Trend.slope, values) => Trend.trend = "improving"
    /\ (Len(values) = 5 /\ DecreasingInTime(values))
         => /\ Trend.slope[1] < 0 /\ Trend.slope[2] > 0
            /\ Trend.trend \in {"declining", "stable"}
            /\ BelowThreshold(Trend.slope, values) => Trend.trend = "stable"
            /\ AboveThreshold(Trend.slope, values) => Trend.trend = "declining"
    /\ Constant(values) => Trend.trend = "stable"

\* a strictly increasing series of 5 points came out 'stable', its slope
\* being positive and below the threshold
C15_Witness ==
  /\ TrendDone
  /\ Len(values) = 5
  /\ IncreasingInTime(values)
  /\ Trend.trend = "stable"
  /\ Trend.slope[1] > 0

\* five equal values followed in time by a sixth
FiveEqualThenOne(vals) ==
  /\ Len(vals) = 6
  /\ DistinctTimestamps(vals)
  /\ \A i, j \in 1..5 : Chrono(vals)[i].value = Chrono(vals)[j].value
\* 36 * (distance of the sixth value from the mean)^2 and 36 * 4 * variance
LastDistanceSq(vals) ==
  (6 * Chrono(vals)[6].value - Total(vals)) * (6 * Chrono(vals)[6].value - Total(vals))
FourVariances(vals) ==
  4 * SumSeq([i \in 1..6 |->
                (6 * vals[i].value - Total(vals)) * (6 * vals[i].value - Total(vals))])

\* C16 as stated: five equal values followed by a value at least 2
\* (population) standard deviations from the mean of the six give
\* anomaly = true.
C16_AnomalyAtLeastTwoSd ==
  (TrendDone /\ FiveEqualThenOne(values)
   /\ 6 * LastDistanceSq(values) >= FourVariances(values))
  => Trend.anomaly = TRUE

\* C16 amended: five equal values followed by a value more than 2
\* standard deviations from the mean of the six give anomaly = true.
C16_AnomalyMoreThanTwoSd ==
  (TrendDone /\ FiveEqualThenOne(values)
   /\ 6 * LastDistanceSq(values) > FourVariances(values))
  => Trend.anomaly = TRUE

\* five equal values and a sixth above them were flagged
C16_Witness ==
  /\ TrendDone
  /\ FiveEqualThenOne(values)
  /\ Chrono(values)[6].value > Chrono(values)[1].value
  /\ Trend.anomaly = TRUE

\* C17: a call on a series of distinct timestamps leaves the caller's array
\* as it was and returns what the same points give when handed over in the
\* order of their timestamps: the order of the input list does not matter.
C17_InputOrderIrrelevant ==
  [][(tpc = "ready" /\ tpc' = "done" /\ DistinctTimestamps(values))
     => /\ values' = values
        /\ detectTrend(values) = detectTrend(Chrono(values))
        /\ trendResult' \in detectTrend(Chrono(values))]_vars

\* a call has returned a trend other than 'stable' for three or more points
\* of distinct timestamps that were handed over out of order
C17_Witness ==
  /\ TrendDone
  /\ Len(values) >= 3
  /\ DistinctTimestamps(values)
  /\ values # Chrono(values)
  /\ values # [i \in 1..Len(values) |-> Chrono(values)[Len(values) + 1 - i]]
  /\ Trend.trend # "stable"

\* the number of rows of category c in the fetched rows s
CountOf(s, c) == Cardinality({i \in 1..Len(s) : s[i].category = c})
\* the categories an observation of the model can have
SomeCategories == ObservationCategories \cup {o.category : o \in obsTable}

\* C18: once the handler has aggregated, the trend map and the summary map
\* have the same keys, which are exactly the categories that the fetched rows
\* hold at least 2 times; the response is sent with status 200 and carries
\* these two maps.
C18_CategoryPresentIffTwoFetched ==
  (tlpc \in {"count", "done"}) =>
    /\ DOMAIN trendByCategory = DOMAIN summaryByCategory
    /\ \A c \in SomeCategories : c \in DOMAIN trendByCategory <=> CountOf(allObs, c) >= 2
    /\ DOMAIN trendByCategory \subseteq SomeCategories
    /\ tlpc = "done" =>
         /\ tres[1].status = 200
         /\ tres[1].trends = trendByCategory
         /\ tres[1].summaries = summaryByCategory

\* a response was sent with one category in the maps and another, fetched
\* once, in neither
C18_Witness ==
  /\ tlpc = "done"
  /\ \E c \in DOMAIN tres[1].trends : CountOf(allObs, c) >= 2
  /\ \E c \in SomeCategories : CountOf(allObs, c) = 1 /\ c \notin DOMAIN tres[1].summaries


\* caller c calls loadGuidelines in this step
Calls(c) == Resting(c) /\ ~Resting(c)'

\* C19: once a load has succeeded, every later loadGuidelines call returns
\* that collection without reading the source, until clearGuidelinesCache is
\* called; the first call after an invalidation reads the source again.
C19_CachedUntilInvalidated ==
  [][\A c \in Callers :
       Calls(c) =>
         /\ established # Undef =>
              lpc'[c] = "iterate" /\ retAt'[c] = established[1]
         /\ invalidated => lpc'[c] = "readdir"]_vars

\* the array at address a has been handed out: it is cached or a caller holds it
Published(a) ==
  \/ guidelinesCache = <<a>>
  \/ \E c \in Callers : lpc[c] \in {"iterate", "finished"} /\ lret[c] = a

\* C20: a collection returned by loadGuidelines is never modified in place;
\* the cache reference only changes to none or to a newly built collection
\* that nobody held before, and a caller iterating a returned collection sees,
\* from start to end, the rules it held when it was returned.
C20_ReturnedCollectionNeverModified ==
  [][/\ \A a \in 1..Len(heap) : Published(a) => heap'[a] = heap[a]
     /\ guidelinesCache' # guidelinesCache =>
          \/ guidelinesCache' = Undef
          \/ ~Published(guidelinesCache'[1])
     /\ \A c \in Callers :
          lpc'[c] \in {"iterate", "finished"} =>
            /\ heap'[lret'[c]] = retAt'[c]
            /\ lseen'[c] = SubSeq(retAt'[c], 1, lpos'[c])
            /\ lpc'[c] = "finished" => lseen'[c] = retAt'[c]]_vars

\* a caller has iterated both rules of the collection it was given while the
\* cache had been replaced by another collection with other rules
C20_Witness ==
  \E c \in Callers :
    /\ lpc[c] = "finished"
    /\ Len(lseen[c]) = 2
    /\ guidelinesCache # Undef
    /\ guidelinesCache[1] # lret[c]
    /\ heap[guidelinesCache[1]] # lseen[c]


\* the rows an evaluation for user u creates from the rules gs, the age a,
\* the sex sx and the snapshot s, ids aside
SoloRecs(u, gs, a, sx) ==
  {StripId(RecRow(0, u, g)) : g \in {x \in SeqToSet(gs) : Eligible(x, a, sx)}}
SoloSignals(u, gs, a, sx, s) ==
  {StripId(SignalRow(0, u, g, latestObs(relevantObs(s, g)))) :
     g \in {x \in SeqToSet(gs) : Eligible(x, a, sx) /\ SignalDue(s, x)}}
\* what an evaluation for user u, running alone on some day of the
\* behaviour, can leave persisted (the load of the rules may fail)
SoloOutcomes(u) ==
  {<<SoloRecs(u, gs, IF users[u].dateOfBirth = Undef THEN Undef
                     ELSE Some(calculateAge(users[u].dateOfBirth, <<Today[1], Today[2], d>>)),
              users[u].sex),
     SoloSignals(u, gs, IF users[u].dateOfBirth = Undef THEN Undef
                        ELSE Some(calculateAge(users[u].dateOfBirth, <<Today[1], Today[2], d>>)),
                 users[u].sex, s)>> :
     gs \in {ParsedGuidelines(source), <<>>},
     d \in Today[3]..(Today[3] + MaxTicks),
     s \in getObservationsByUser(u, ObsQueryLimit)}
\* the persisted rows of user u, ids aside
Persisted(u) ==
  <<{StripId(x) : x \in RowsOf(recommendations, u)},
    {StripId(x) : x \in RowsOf(riskSignals, u)}>>
AllComplete == \A r \in Runs : pc[r] \in {"done", "failed"}

\* C21: a step of an evaluation for one user leaves the persisted
\* recommendations and risk signals of every other user as they are, and once
\* all evaluations have completed each evaluated user's persisted rows are
\* what an evaluation for that user alone leaves (one row per rule, ids
\* aside); a user never evaluated has no rows.
C21_DifferentUsersDoNotInterfere ==
  /\ [][\A r \in Runs :
          pc'[r] # pc[r] =>
            \A u \in UserIds \ {uid[r]} :
               /\ RowsOf(recommendations', u) = RowsOf(recommendations, u)
               /\ RowsOf(riskSignals', u) = RowsOf(riskSignals, u)]_vars
  /\ [](AllComplete =>
          \A u \in DOMAIN users :
             IF \E r \in Runs : uid[r] = u
             THEN /\ Persisted(u) \in SoloOutcomes(u)
                  /\ Cardinality(RowsOf(recommendations, u)) = Cardinality(Persisted(u)[1])
                  /\ Cardinality(RowsOf(riskSignals, u)) = Cardinality(Persisted(u)[2])
             ELSE Persisted(u) = <<{}, {}>>)

\* the evaluations for u1 and u2 have both completed and their inserts were
\* interleaved: a row of u2 was created between two rows of u1
C21_Witness ==
  /\ \A r \in Runs : Done(r)
  /\ uid[1] = "u1" /\ uid[2] = "u2"
  /\ \E x, y \in RowsOf(recommendations \cup riskSignals, "u1") :
       \E z \in RowsOf(recommendations, "u2") : x.id < z.id /\ z.id < y.id


\* C22: filterSafetyOutput returns its input unchanged for every text that
\* passes isSafeOutput.
C22_SafeTextUnchanged == (fpc = "done" /\ isSafeOutput(text)) => filtered = text


\* C23: a rotateRefreshToken(t) made after rotateRefreshToken(t) or
\* invalidateRefreshToken(t) has been called returns null, whatever calls
\* were made and whatever time passed in between.
C23_RefreshTokenUsableOnce ==
  (lastOp.op = "rotate" /\ lastOp.spentBefore) => lastOp.result = 0

\* a token that was rotated with success is presented again, before it would
\* have expired, while its successor is stored
C23_Witness ==
  /\ lastOp.op = "rotate"
  /\ lastOp.spentBefore
  /\ lastOp.token # NoToken
  /\ lastOp.result = 0
  /\ authNow < REFRESH_TOKEN_TTL_DAYS
  /\ \E e \in refreshTokenStore : e.token > lastOp.token


\* the position 0..n-1 of point i in the order of the (distinct) timestamps
Position(vals, i) ==
  Cardinality({j \in 1..Len(vals) : vals[j].timestamp < vals[i].timestamp})
\* the least-squares slope of value against position, as <<numerator,
\* denominator>> of (n Sxy - Sx Sy) / (n Sxx - Sx Sx)
OlsSlope(vals) ==
  LET n == Len(vals)
      x == [i \in 1..n |-> Position(vals, i)]
      Sx == SumSeq(x)
      Sxy == SumSeq([i \in 1..n |-> x[i] * vals[i].value])
      Sxx == SumSeq([i \in 1..n |-> x[i] * x[i]])
  IN  <<n * Sxy - Sx * Total(vals), n * Sxx - Sx * Sx>>
BySign(q) == IF q[1] > 0 THEN "improving" ELSE "declining"

MatchesTrigger(s, g) ==
  \E i \in 1..Len(s) : s[i].category = g.category /\ s[i].code = g.code
\* the missing-data questions the rules gs owe, in rule order: one for each
\* rule that specifies a code no observation of s matches
RECURSIVE OwedQuestions(_, _)
OwedQuestions(gs, s) ==
  IF gs = <<>> THEN <<>>
  ELSE (IF Head(gs).code # Null /\ ~MatchesTrigger(s, Head(gs))
        THEN <<Q_MISSING(Head(gs))>> ELSE <<>>) \o OwedQuestions(Tail(gs), s)
\* the questions run r accumulated after the (at most three) profile questions
AccumulatedRuleQuestions(r) ==
  SelectSeq(questions[r], LAMBDA q : q \notin {Q_DOB, Q_SEX, Q_NODATA})

\* C25: the per-rule missing-data questions an evaluation accumulates are,
\* in rule order, one for every rule that passes the eligibility checks,
\* specifies a trigger code and has no observation with its category and
\* code; a rule without a code, a rule the checks skip and a rule with a
\* relevant observation add none.
C25_RuleQuestionIffCodeAndNoData ==
  \A r \in Runs :
     Done(r) =>
       AccumulatedRuleQuestions(r) =
         OwedQuestions(SelectSeq(guidelines[r], LAMBDA g : Eligible(g, age[r], sex[r])),
                       observations[r])

\* an evaluation accumulated a question for one rule and none for another
\* that passed the checks, while the user has observations
C25_Witness ==
  \E r \in Runs :
     /\ Done(r)
     /\ Len(AccumulatedRuleQuestions(r)) = 1
     /\ Len(matchedRecommendations[r]) = 2
     /\ observations[r] # <<>>


\* C26: an evaluation asks the date-of-birth question if and only if the
\* profile has no date of birth; with a date of birth, whatever the age
\* computed from it (0 included), the question is not asked.
C26_DobQuestionIffNoDateOfBirth ==
  \A r \in Runs :
     Done(r) =>
       ((\E i \in 1..Len(Returned(r).questions) : Returned(r).questions[i] = Q_DOB)
          <=> user[r][1].dateOfBirth = Undef)


\* C27: when the evaluations of one user overlap, then after all of them
\* have completed that user's persisted recommendations hold exactly one row
\* for each rule that passes the eligibility checks (none for the others)
\* and the persisted risk signals exactly one row for each rule whose latest
\* relevant observation is out of range.
C27_OverlappingRunsLeaveOneRowPerRule ==
  (\A r \in Runs : Done(r)) =>
    \A g \in SeqToSet(ParsedGuidelines(source)) :
       /\ Cardinality({x \in RowsOf(recommendations, "u1") : x.guidelineId = g.id})
            = IF Eligible(g, age[1], sex[1]) THEN 1 ELSE 0
       /\ Cardinality({x \in RowsOf(riskSignals, "u1") : x.guidelineId = g.id})
            = IF Eligible(g, age[1], sex[1]) /\ SignalDue(observations[1], g) THEN 1 ELSE 0


\* C28: after clearGuidelinesCache has been called, no loadGuidelines call
\* made later returns a collection read from the source before that
\* invalidation, also when another load was in flight at the moment of the
\* invalidation: a call served from the cache never gets an array that
\* already held rules when clearGuidelinesCache was last called.
C28_NoCollectionFromBeforeInvalidation ==
  [][\A c \in Callers :
       (Calls(c) /\ lpc'[c] = "iterate") => lret'[c] \notin readBeforeClear]_vars


\* C29: in every evaluateGuidelines result each risk signal belongs to a rule
\* that also produced a recommendation in the same result, each rule
\* contributes at most one risk signal, and so there are never more risk
\* signals than recommendations.
C29_SignalsOnlyForRecommendedRules ==
  \A r \in Runs : Done(r) =>
    LET recs == Returned(r).recommendations
        sigs == Returned(r).riskSignals
    IN  /\ \A i \in 1..Len(sigs) :
             \E j \in 1..Len(recs) : recs[j].guidelineId = sigs[i].guidelineId
        /\ \A g \in RulesOf(r) :
             Cardinality({i \in 1..Len(sigs) : sigs[i].guidelineId = g.id}) <= 1
        /\ Len(sigs) <= Len(recs)

\* a result with a risk signal and with more recommendations than risk signals
C29_Witness ==
  \E r \in Runs :
    /\ Done(r)
    /\ Len(Returned(r).riskSignals) >= 1
    /\ Len(Returned(r).recommendations) > Len(Returned(r).riskSignals)


\* the guideline load of run r has failed: the files on disk of SpecRestart
\* always hold a rule that parses, so the run's collection is empty only
\* when the catch of loadGuidelines returned []
LoadFailed(r) == pc[r] \in {"getObs", "clearRecs", "clearSigs"} /\ guidelines[r] = <<>>

\* C30: evaluateGuidelines deletes the user's persisted recommendations and
\* risk signals only after the user lookup, the guideline load and the
\* observation fetch have all completed, and when one of the three fails the
\* run neither deletes nor creates a persisted recommendation or risk signal.
C30_NoDeleteUnlessAllThreeSucceeded ==
  [][\A r \in Runs :
       pc'[r] # pc[r] =>
         /\ (pc[r] \in {"idle", "getUser", "readFiles", "getObs"}
               \/ pc'[r] = "failed" \/ LoadFailed(r))
            => /\ recommendations' = recommendations
               /\ riskSignals' = riskSignals
         /\ pc[r] # "failed"]_vars

====
